---- MODULE Spec2Model ----
(***************************************************************************)
(* Entity models of the intelligence-platform demo: Incident, Ticket,      *)
(* Dataset and User (src/app/models).  One behaviour is the life of one    *)
(* model object: a constructor call, then any sequence of setter, mutator  *)
(* and query calls on it.  `ent` is the object (its private fields),       *)
(* `last` is the most recent call: its name, the argument the properties   *)
(* refer to, whether it raised, and what it returned.                      *)
(*                                                                         *)
(* Further specifications over the same two variables: SlaSpec (the ticket *)
(* SLA check against the clock), PasswordManagerSpec and CredentialSpec    *)
(* (password hashing, verification, registration and login),               *)
(* StrengthSpec (password rules, scoring and generation),                  *)
(* RegistrationSpec (register_user with any form input), RepositorySpec    *)
(* (BaseRepository over cyber_incidents), ValidationSpec (validate() on    *)
(* any field values), InterleavingSpec (two callers), DashboardSpec (the   *)
(* Streamlit session), WalkSpec (walks through the transition tables) and  *)
(* SingletonSpec (DatabaseManager constructed by two threads).             *)
(***************************************************************************)
EXTENDS Integers, Sequences, FiniteSets, TLC

VARIABLES ent, last

vars == <<ent, last>>

(***************************************************************************)
(* Bounds of the input text values.  A text is a sequence of characters;   *)
(* the code only looks at its length and at its leading and trailing       *)
(* blanks, so inputs are blanks, letters, blanks.                          *)
(***************************************************************************)
MaxPad == 1
MaxTitleCore == 5
MaxNameCore == 3

\* Python None and a present value.
None == <<>>
Some(x) == <<x>>

Spaces(n) == [i \in 1..n |-> " "]
Letters(n) == [i \in 1..n |-> "a"]
Padded(l, c, t) == Spaces(l) \o Letters(c) \o Spaces(t)
Texts(maxCore) ==
    {Padded(l, c, t) : l \in 0..MaxPad, c \in 0..maxCore, t \in 0..MaxPad}

\* str.strip(): drop leading and trailing blanks.
RECURSIVE lstrip(_)
lstrip(s) == IF s # <<>> /\ Head(s) = " " THEN lstrip(Tail(s)) ELSE s
RECURSIVE rstrip(_)
rstrip(s) ==
    IF s # <<>> /\ s[Len(s)] = " " THEN rstrip(SubSeq(s, 1, Len(s) - 1)) ELSE s
strip(s) == rstrip(lstrip(s))

\* datetime.fromisoformat(value) succeeds (otherwise ValueError).
IsoDates == {"2024-01-15"}
fromisoformat_ok(value) == value \in IsoDates

\* datetime.now().isoformat()
NowIso == "2024-06-01T12:00:00"

(***************************************************************************)
(* Input values of the calls.                                              *)
(***************************************************************************)
TitleInputs == Texts(MaxTitleCore)
NameInputs == Texts(MaxNameCore)
DescriptionInputs == {<<>>, <<" ">>, <<"a">>}
DateInputs == {"2024-01-15", "2024-02-30"}
IdInputs == {None, Some(-1)}
UserIdInputs == {None, Some(-1), Some(1)}
CreatedAtInputs == {None}
Handlers == {"alice"}
Roles == {"user", "analyst", "admin"}
RoleInputs == Roles \cup {"guest", ""}

\* Outcome of a setter or constructor: raised or not, and the object after.
Raise(self) == [raised |-> TRUE, self |-> self]
Return(self) == [raised |-> FALSE, self |-> self]

\* Result of validate(): (is_valid, error_message).
Valid == [ok |-> TRUE, error |-> ""]
Invalid(msg) == [ok |-> FALSE, error |-> msg]

NoEntity == [kind |-> "none"]
NoCall == [op |-> "none", arg |-> None, was |-> None, err |-> FALSE, ret |-> None]
Call(op, arg, was, err, ret) ==
    [op |-> op, arg |-> arg, was |-> was, err |-> err, ret |-> ret]

(***************************************************************************)
(* BaseModel                                                               *)
(***************************************************************************)
BaseModel_validate(self) ==
    IF self.id # None /\ self.id[1] < 0
    THEN Invalid("ID must be a positive integer")
    ELSE Valid

BaseModel_set_id(self, value) ==
    IF value # None /\ value[1] < 0
    THEN Raise(self)
    ELSE Return([self EXCEPT !.id = value])

BaseModel_created_at(created_at) ==
    IF created_at = None THEN NowIso ELSE created_at[1]

(***************************************************************************)
(* Incident                                                                *)
(***************************************************************************)
Incident_VALID_SEVERITIES == <<"low", "medium", "high", "critical">>
Incident_VALID_STATUSES == <<"open", "investigating", "resolved", "closed">>

Range(seq) == {seq[i] : i \in DOMAIN seq}
\* list.index(x) for x in the list.
IndexOf(seq, x) == CHOOSE i \in DOMAIN seq : seq[i] = x

IncidentSeverityInputs == Range(Incident_VALID_SEVERITIES) \cup {"urgent"}
IncidentStatusInputs == Range(Incident_VALID_STATUSES) \cup {"in_progress"}

Incident_validate(self) ==
    IF ~BaseModel_validate(self).ok THEN BaseModel_validate(self)
    ELSE IF self.title = <<>> \/ Len(strip(self.title)) = 0
    THEN Invalid("Title cannot be empty")
    ELSE IF Len(self.title) < 5
    THEN Invalid("Title must be at least 5 characters long")
    ELSE IF self.description = <<>> \/ Len(strip(self.description)) = 0
    THEN Invalid("Description cannot be empty")
    ELSE IF ~fromisoformat_ok(self.incident_date)
    THEN Invalid("Invalid date format. Use YYYY-MM-DD")
    ELSE IF self.severity \notin Range(Incident_VALID_SEVERITIES)
    THEN Invalid("Severity must be one of: low, medium, high, critical")
    ELSE IF self.status \notin Range(Incident_VALID_STATUSES)
    THEN Invalid("Status must be one of: open, investigating, resolved, closed")
    ELSE Valid

IncidentArgs ==
    [title : TitleInputs, description : DescriptionInputs,
     incident_date : DateInputs, severity : {"medium", "urgent"},
     status : IncidentStatusInputs, assigned_to : {None},
     reported_by : {None}, id : IdInputs, created_at : CreatedAtInputs]

Incident_init(args) ==
    LET self == [kind |-> "incident",
                 id |-> args.id,
                 created_at |-> BaseModel_created_at(args.created_at),
                 title |-> args.title,
                 description |-> args.description,
                 incident_date |-> args.incident_date,
                 severity |-> args.severity,
                 status |-> args.status,
                 assigned_to |-> args.assigned_to,
                 reported_by |-> args.reported_by]
    IN IF Incident_validate(self).ok THEN Return(self) ELSE Raise(NoEntity)

\* Variant: the length check placed after the assignment.
Incident_set_title_assign_first(self, value) ==
    IF value = <<>> \/ Len(strip(value)) = 0 THEN Raise(self)
    ELSE IF Len(value) < 5 THEN Raise([self EXCEPT !.title = strip(value)])
    ELSE Return([self EXCEPT !.title = strip(value)])

Incident_set_title(self, value) ==
    IF value = <<>> \/ Len(strip(value)) = 0 THEN Raise(self)
    ELSE IF Len(value) < 5 THEN Raise(self)
    ELSE Return([self EXCEPT !.title = strip(value)])

Incident_set_description(self, value) ==
    IF value = <<>> \/ Len(strip(value)) = 0 THEN Raise(self)
    ELSE Return([self EXCEPT !.description = strip(value)])

Incident_set_incident_date(self, value) ==
    IF ~fromisoformat_ok(value) THEN Raise(self)
    ELSE Return([self EXCEPT !.incident_date = value])

Incident_set_severity(self, value) ==
    IF value \notin Range(Incident_VALID_SEVERITIES) THEN Raise(self)
    ELSE Return([self EXCEPT !.severity = value])

Incident_set_status(self, value) ==
    IF value \notin Range(Incident_VALID_STATUSES) THEN Raise(self)
    ELSE Return([self EXCEPT !.status = value])

Incident_set_assigned_to(self, value) == Return([self EXCEPT !.assigned_to = value])

Incident_valid_transitions ==
    [open |-> <<"investigating", "closed">>,
     investigating |-> <<"resolved", "open", "closed">>,
     resolved |-> <<"closed", "open">>,
     closed |-> <<"open">>]

\* Variant: a closed incident may also go straight back to investigating.
Incident_can_transition_to_closed_investigating(self, new_status) ==
    new_status \in
        (IF self.status = "closed" THEN {"open", "investigating"}
         ELSE IF self.status \in DOMAIN Incident_valid_transitions
         THEN Range(Incident_valid_transitions[self.status])
         ELSE {})

Incident_can_transition_to(self, new_status) ==
    new_status \in
        (IF self.status \in DOMAIN Incident_valid_transitions
         THEN Range(Incident_valid_transitions[self.status])
         ELSE {})

Incident_assign_to_analyst(self, analyst_username) ==
    LET assigned == [self EXCEPT !.assigned_to = Some(analyst_username)]
    IN IF assigned.status = "open"
       THEN [assigned EXCEPT !.status = "investigating"]
       ELSE assigned

\* Variant: escalation jumps straight to the ceiling.
Incident_escalate_to_top(self) ==
    LET severity_order == <<"low", "medium", "high", "critical">>
    IN [self EXCEPT !.severity = severity_order[Len(severity_order)]]

Incident_escalate(self) ==
    LET severity_order == <<"low", "medium", "high", "critical">>
        current_index == IndexOf(severity_order, self.severity)
    IN IF current_index < Len(severity_order)
       THEN [self EXCEPT !.severity = severity_order[current_index + 1]]
       ELSE self

Incident_resolve(self) ==
    IF self.status \in {"open", "investigating"}
    THEN [self EXCEPT !.status = "resolved"]
    ELSE self

Incident_close(self) == [self EXCEPT !.status = "closed"]

Incident_reopen(self) ==
    IF self.status = "closed" THEN [self EXCEPT !.status = "open"] ELSE self

(***************************************************************************)
(* Ticket                                                                  *)
(***************************************************************************)
Ticket_VALID_PRIORITIES == <<"low", "medium", "high", "urgent">>
Ticket_VALID_STATUSES == <<"open", "in_progress", "pending", "resolved", "closed">>
Ticket_VALID_CATEGORIES ==
    <<"hardware", "software", "network", "security", "access", "other">>

TicketPriorityInputs == Range(Ticket_VALID_PRIORITIES) \cup {"critical"}
TicketStatusInputs == Range(Ticket_VALID_STATUSES) \cup {"investigating"}
TicketCategoryInputs == {"hardware", "other", "printer"}

\* Variant: the status is checked before the priority.
Ticket_validate_status_first(self) ==
    IF ~BaseModel_validate(self).ok THEN BaseModel_validate(self)
    ELSE IF self.title = <<>> \/ Len(strip(self.title)) = 0
    THEN Invalid("Title cannot be empty")
    ELSE IF Len(self.title) < 5
    THEN Invalid("Title must be at least 5 characters long")
    ELSE IF self.description = <<>> \/ Len(strip(self.description)) = 0
    THEN Invalid("Description cannot be empty")
    ELSE IF self.status \notin Range(Ticket_VALID_STATUSES)
    THEN Invalid("Status must be one of: open, in_progress, pending, resolved, closed")
    ELSE IF self.priority \notin Range(Ticket_VALID_PRIORITIES)
    THEN Invalid("Priority must be one of: low, medium, high, urgent")
    ELSE IF self.category \notin Range(Ticket_VALID_CATEGORIES)
    THEN Invalid("Category must be one of: hardware, software, network, security, access, other")
    ELSE Valid

Ticket_validate(self) ==
    IF ~BaseModel_validate(self).ok THEN BaseModel_validate(self)
    ELSE IF self.title = <<>> \/ Len(strip(self.title)) = 0
    THEN Invalid("Title cannot be empty")
    ELSE IF Len(self.title) < 5
    THEN Invalid("Title must be at least 5 characters long")
    ELSE IF self.description = <<>> \/ Len(strip(self.description)) = 0
    THEN Invalid("Description cannot be empty")
    ELSE IF self.priority \notin Range(Ticket_VALID_PRIORITIES)
    THEN Invalid("Priority must be one of: low, medium, high, urgent")
    ELSE IF self.status \notin Range(Ticket_VALID_STATUSES)
    THEN Invalid("Status must be one of: open, in_progress, pending, resolved, closed")
    ELSE IF self.category \notin Range(Ticket_VALID_CATEGORIES)
    THEN Invalid("Category must be one of: hardware, software, network, security, access, other")
    ELSE Valid

TicketArgs ==
    [title : TitleInputs, description : DescriptionInputs,
     priority : {"medium", "critical"}, status : TicketStatusInputs,
     category : {"other", "printer"}, requester : {None},
     assigned_to : {None}, id : IdInputs, created_at : CreatedAtInputs]

Ticket_init(args) ==
    LET self == [kind |-> "ticket",
                 id |-> args.id,
                 created_at |-> BaseModel_created_at(args.created_at),
                 title |-> args.title,
                 description |-> args.description,
                 priority |-> args.priority,
                 status |-> args.status,
                 category |-> args.category,
                 requester |-> args.requester,
                 assigned_to |-> args.assigned_to]
    IN IF Ticket_validate(self).ok THEN Return(self) ELSE Raise(NoEntity)

Ticket_set_title(self, value) ==
    IF value = <<>> \/ Len(strip(value)) = 0 THEN Raise(self)
    ELSE IF Len(value) < 5 THEN Raise(self)
    ELSE Return([self EXCEPT !.title = strip(value)])

Ticket_set_description(self, value) ==
    IF value = <<>> \/ Len(strip(value)) = 0 THEN Raise(self)
    ELSE Return([self EXCEPT !.description = strip(value)])

Ticket_set_priority(self, value) ==
    IF value \notin Range(Ticket_VALID_PRIORITIES) THEN Raise(self)
    ELSE Return([self EXCEPT !.priority = value])

\* Variant: the setter without its membership check.
Ticket_set_status_unchecked(self, value) == Return([self EXCEPT !.status = value])

Ticket_set_status(self, value) ==
    IF value \notin Range(Ticket_VALID_STATUSES) THEN Raise(self)
    ELSE Return([self EXCEPT !.status = value])

Ticket_set_category(self, value) ==
    IF value \notin Range(Ticket_VALID_CATEGORIES) THEN Raise(self)
    ELSE Return([self EXCEPT !.category = value])

Ticket_set_assigned_to(self, value) == Return([self EXCEPT !.assigned_to = value])

Ticket_valid_transitions ==
    [open |-> <<"in_progress", "closed">>,
     in_progress |-> <<"pending", "resolved", "open">>,
     pending |-> <<"in_progress", "resolved", "closed">>,
     resolved |-> <<"closed", "open">>,
     closed |-> <<"open">>]

\* Variant: closed is final.
Ticket_can_transition_to_closed_final(self, new_status) ==
    new_status \in
        (IF self.status \in DOMAIN Ticket_valid_transitions \ {"closed"}
         THEN Range(Ticket_valid_transitions[self.status])
         ELSE {})

Ticket_can_transition_to(self, new_status) ==
    new_status \in
        (IF self.status \in DOMAIN Ticket_valid_transitions
         THEN Range(Ticket_valid_transitions[self.status])
         ELSE {})

\* Variant: assignment moves every ticket that is not in progress, not only
\* an open one, to in_progress.
Ticket_assign_to_technician_any_status(self, technician_username) ==
    [self EXCEPT !.assigned_to = Some(technician_username),
                 !.status = "in_progress"]

Ticket_assign_to_technician(self, technician_username) ==
    LET assigned == [self EXCEPT !.assigned_to = Some(technician_username)]
    IN IF assigned.status = "open"
       THEN [assigned EXCEPT !.status = "in_progress"]
       ELSE assigned

Ticket_escalate(self) ==
    LET priority_order == <<"low", "medium", "high", "urgent">>
        current_index == IndexOf(priority_order, self.priority)
    IN IF current_index < Len(priority_order)
       THEN [self EXCEPT !.priority = priority_order[current_index + 1]]
       ELSE self

Ticket_resolve(self) ==
    IF self.status \in {"open", "in_progress", "pending"}
    THEN [self EXCEPT !.status = "resolved"]
    ELSE self

Ticket_close(self) == [self EXCEPT !.status = "closed"]

Ticket_reopen(self) ==
    IF self.status = "closed" THEN [self EXCEPT !.status = "open"] ELSE self

Ticket_put_on_hold(self) ==
    IF self.status = "in_progress" THEN [self EXCEPT !.status = "pending"] ELSE self

(***************************************************************************)
(* Dataset                                                                 *)
(***************************************************************************)
Dataset_VALID_CLASSIFICATIONS == <<"public", "internal", "confidential", "restricted">>
Dataset_VALID_FORMATS == <<"csv", "json", "xml", "parquet", "sql", "other">>

ClassificationInputs == Range(Dataset_VALID_CLASSIFICATIONS) \cup {"secret"}
FormatInputs == {"csv", "json", "yaml"}
SizeInputs == {None, Some(-1), Some(10)}

Dataset_validate(self) ==
    IF ~BaseModel_validate(self).ok THEN BaseModel_validate(self)
    ELSE IF self.name = <<>> \/ Len(strip(self.name)) = 0
    THEN Invalid("Name cannot be empty")
    ELSE IF Len(self.name) < 3
    THEN Invalid("Name must be at least 3 characters long")
    ELSE IF self.description = <<>> \/ Len(strip(self.description)) = 0
    THEN Invalid("Description cannot be empty")
    ELSE IF self.source = <<>> \/ Len(strip(self.source)) = 0
    THEN Invalid("Source cannot be empty")
    ELSE IF self.classification \notin Range(Dataset_VALID_CLASSIFICATIONS)
    THEN Invalid("Classification must be one of: public, internal, confidential, restricted")
    ELSE IF self.format \notin Range(Dataset_VALID_FORMATS)
    THEN Invalid("Format must be one of: csv, json, xml, parquet, sql, other")
    ELSE IF self.size_mb # None /\ self.size_mb[1] < 0
    THEN Invalid("Size must be a positive number")
    ELSE Valid

DatasetArgs ==
    [name : NameInputs, description : DescriptionInputs,
     source : DescriptionInputs, classification : ClassificationInputs,
     format : {"csv", "yaml"}, size_mb : SizeInputs, owner : {None},
     id : IdInputs, created_at : CreatedAtInputs]

Dataset_init(args) ==
    LET self == [kind |-> "dataset",
                 id |-> args.id,
                 created_at |-> BaseModel_created_at(args.created_at),
                 name |-> args.name,
                 description |-> args.description,
                 source |-> args.source,
                 classification |-> args.classification,
                 format |-> args.format,
                 size_mb |-> args.size_mb,
                 owner |-> args.owner]
    IN IF Dataset_validate(self).ok THEN Return(self) ELSE Raise(NoEntity)

Dataset_set_name(self, value) ==
    IF value = <<>> \/ Len(strip(value)) = 0 THEN Raise(self)
    ELSE IF Len(value) < 3 THEN Raise(self)
    ELSE Return([self EXCEPT !.name = strip(value)])

Dataset_set_description(self, value) ==
    IF value = <<>> \/ Len(strip(value)) = 0 THEN Raise(self)
    ELSE Return([self EXCEPT !.description = strip(value)])

Dataset_set_source(self, value) ==
    IF value = <<>> \/ Len(strip(value)) = 0 THEN Raise(self)
    ELSE Return([self EXCEPT !.source = strip(value)])

Dataset_set_classification(self, value) ==
    IF value \notin Range(Dataset_VALID_CLASSIFICATIONS) THEN Raise(self)
    ELSE Return([self EXCEPT !.classification = value])

Dataset_set_format(self, value) ==
    IF value \notin Range(Dataset_VALID_FORMATS) THEN Raise(self)
    ELSE Return([self EXCEPT !.format = value])

Dataset_set_size_mb(self, value) ==
    IF value # None /\ value[1] < 0 THEN Raise(self)
    ELSE Return([self EXCEPT !.size_mb = value])

Dataset_access_matrix ==
    [public |-> <<"user", "analyst", "admin">>,
     internal |-> <<"analyst", "admin">>,
     confidential |-> <<"admin">>,
     restricted |-> <<"admin">>]

\* Variant: confidential data also open to analysts.
Dataset_can_access_analyst_confidential(self, user_role) ==
    LET allowed_roles ==
            IF self.classification = "confidential" THEN {"analyst", "admin"}
            ELSE IF self.classification \in DOMAIN Dataset_access_matrix
            THEN Range(Dataset_access_matrix[self.classification])
            ELSE {}
    IN user_role \in allowed_roles

Dataset_can_access(self, user_role) ==
    LET allowed_roles ==
            IF self.classification \in DOMAIN Dataset_access_matrix
            THEN Range(Dataset_access_matrix[self.classification])
            ELSE {}
    IN user_role \in allowed_roles

Dataset_upgrade_classification(self) ==
    LET classification_order == <<"public", "internal", "confidential", "restricted">>
        current_index == IndexOf(classification_order, self.classification)
    IN IF current_index < Len(classification_order)
       THEN [self EXCEPT !.classification = classification_order[current_index + 1]]
       ELSE self

\* Variant: the floor test off by one (index > 1 in 0-based terms).
Dataset_downgrade_classification_off_by_one(self) ==
    LET classification_order == <<"public", "internal", "confidential", "restricted">>
        current_index == IndexOf(classification_order, self.classification)
    IN IF current_index > 2
       THEN [self EXCEPT !.classification = classification_order[current_index - 1]]
       ELSE self

Dataset_downgrade_classification(self) ==
    LET classification_order == <<"public", "internal", "confidential", "restricted">>
        current_index == IndexOf(classification_order, self.classification)
    IN IF current_index > 1
       THEN [self EXCEPT !.classification = classification_order[current_index - 1]]
       ELSE self

(***************************************************************************)
(* User                                                                    *)
(***************************************************************************)
User_VALID_ROLES == <<"user", "analyst", "admin">>

PasswordHashInputs == {"", "$2b$12$abc", "$2b$12$xyz"}

User_validate(self) ==
    IF ~BaseModel_validate(self).ok THEN BaseModel_validate(self)
    ELSE IF self.username = <<>> \/ Len(strip(self.username)) = 0
    THEN Invalid("Username cannot be empty")
    ELSE IF Len(self.username) < 3
    THEN Invalid("Username must be at least 3 characters long")
    ELSE IF self.password_hash = ""
    THEN Invalid("Password hash cannot be empty")
    ELSE IF self.role \notin Range(User_VALID_ROLES)
    THEN Invalid("Role must be one of: user, analyst, admin")
    ELSE Valid

UserArgs ==
    [username : NameInputs, password_hash : PasswordHashInputs,
     role : RoleInputs, id : UserIdInputs, created_at : CreatedAtInputs]

User_init(args) ==
    LET self == [kind |-> "user",
                 id |-> args.id,
                 created_at |-> BaseModel_created_at(args.created_at),
                 username |-> args.username,
                 password_hash |-> args.password_hash,
                 role |-> args.role]
    IN IF User_validate(self).ok THEN Return(self) ELSE Raise(NoEntity)

User_set_username(self, value) ==
    IF value = <<>> \/ Len(strip(value)) = 0 THEN Raise(self)
    ELSE IF Len(value) < 3 THEN Raise(self)
    ELSE Return([self EXCEPT !.username = strip(value)])

User_set_password_hash(self, value) ==
    IF value = "" THEN Raise(self)
    ELSE Return([self EXCEPT !.password_hash = value])

User_set_role(self, value) ==
    IF value \notin Range(User_VALID_ROLES) THEN Raise(self)
    ELSE Return([self EXCEPT !.role = value])

User_role_hierarchy == [user |-> 0, analyst |-> 1, admin |-> 2]

\* role_hierarchy.get(role, 0)
User_role_level(role) ==
    IF role \in DOMAIN User_role_hierarchy THEN User_role_hierarchy[role] ELSE 0

\* Variant: strict comparison of the levels.
User_has_permission_strict(self, required_role) ==
    LET user_level == User_role_level(self.role)
        required_level == User_role_level(required_role)
    IN user_level > required_level

User_has_permission(self, required_role) ==
    LET user_level == User_role_level(self.role)
        required_level == User_role_level(required_role)
    IN user_level >= required_level

----------------------------------------------------------------------------
\* A setter or constructor call: the object after it, and the call record.
\* The argument is recorded for the constructors and the status setters;
\* `was` is the value, before the call, of the field the call is about.
Setter(op, arg, was, outcome) ==
    /\ ent' = outcome.self
    /\ last' = Call(op, arg, was, outcome.raised, None)

\* A mutator call (no mutator has a raise statement).
Mutator(op, arg, was, after) ==
    /\ ent' = after
    /\ last' = Call(op, arg, was, FALSE, None)

\* A query: the object is untouched, the result is recorded.
Query(op, arg, result) ==
    /\ ent' = ent
    /\ last' = Call(op, arg, None, FALSE, result)

IsIncident == ent.kind = "incident"

IncidentConstruct ==
    /\ ent = NoEntity /\ last = NoCall
    /\ \E args \in IncidentArgs :
         Setter("Incident.__init__", args, None, Incident_init(args))

IncidentSetId ==
    IsIncident /\ \E v \in IdInputs : Setter("id", None, None, BaseModel_set_id(ent, v))

IncidentSetTitle ==
    IsIncident /\ \E v \in TitleInputs : Setter("title", None, None, Incident_set_title(ent, v))

IncidentSetDescription ==
    IsIncident /\ \E v \in DescriptionInputs :
        Setter("description", None, None, Incident_set_description(ent, v))

IncidentSetDate ==
    IsIncident /\ \E v \in DateInputs :
        Setter("incident_date", None, None, Incident_set_incident_date(ent, v))

IncidentSetSeverity ==
    IsIncident /\ \E v \in IncidentSeverityInputs :
        Setter("severity", None, None, Incident_set_severity(ent, v))

IncidentSetStatus ==
    IsIncident /\ \E v \in IncidentStatusInputs :
        Setter("status", v, ent.status, Incident_set_status(ent, v))

IncidentSetAssignedTo ==
    IsIncident /\ \E v \in {None} \cup {Some(h) : h \in Handlers} :
        Setter("assigned_to", None, None, Incident_set_assigned_to(ent, v))

IncidentCanTransitionTo ==
    IsIncident /\ \E t \in IncidentStatusInputs :
        Query("can_transition_to", t, Incident_can_transition_to(ent, t))

IncidentAssign ==
    IsIncident /\ \E a \in Handlers :
        Mutator("assign_to_analyst", a, ent.status, Incident_assign_to_analyst(ent, a))

IncidentEscalate ==
    IsIncident /\ Mutator("escalate", None, ent.severity, Incident_escalate(ent))

IncidentResolve == IsIncident /\ Mutator("resolve", None, ent.status, Incident_resolve(ent))

IncidentClose == IsIncident /\ Mutator("close", None, ent.status, Incident_close(ent))

IncidentReopen == IsIncident /\ Mutator("reopen", None, ent.status, Incident_reopen(ent))

IncidentValidate == IsIncident /\ Query("validate", None, Incident_validate(ent))

IsTicket == ent.kind = "ticket"

TicketConstruct ==
    /\ ent = NoEntity /\ last = NoCall
    /\ \E args \in TicketArgs :
         Setter("Ticket.__init__", args, None, Ticket_init(args))

TicketSetId ==
    IsTicket /\ \E v \in IdInputs : Setter("id", None, None, BaseModel_set_id(ent, v))

TicketSetTitle ==
    IsTicket /\ \E v \in TitleInputs : Setter("title", None, None, Ticket_set_title(ent, v))

TicketSetDescription ==
    IsTicket /\ \E v \in DescriptionInputs :
        Setter("description", None, None, Ticket_set_description(ent, v))

TicketSetPriority ==
    IsTicket /\ \E v \in TicketPriorityInputs :
        Setter("priority", None, None, Ticket_set_priority(ent, v))

TicketSetStatus ==
    IsTicket /\ \E v \in TicketStatusInputs :
        Setter("status", v, ent.status, Ticket_set_status(ent, v))

TicketSetCategory ==
    IsTicket /\ \E v \in TicketCategoryInputs :
        Setter("category", None, None, Ticket_set_category(ent, v))

TicketSetAssignedTo ==
    IsTicket /\ \E v \in {None} \cup {Some(h) : h \in Handlers} :
        Setter("assigned_to", None, None, Ticket_set_assigned_to(ent, v))

TicketCanTransitionTo ==
    IsTicket /\ \E t \in TicketStatusInputs :
        Query("can_transition_to", t, Ticket_can_transition_to(ent, t))

TicketAssign ==
    IsTicket /\ \E a \in Handlers :
        Mutator("assign_to_technician", a, ent.status, Ticket_assign_to_technician(ent, a))

TicketEscalate ==
    IsTicket /\ Mutator("escalate", None, ent.priority, Ticket_escalate(ent))

TicketResolve == IsTicket /\ Mutator("resolve", None, ent.status, Ticket_resolve(ent))

TicketClose == IsTicket /\ Mutator("close", None, ent.status, Ticket_close(ent))

TicketReopen == IsTicket /\ Mutator("reopen", None, ent.status, Ticket_reopen(ent))

TicketPutOnHold == IsTicket /\ Mutator("put_on_hold", None, ent.status, Ticket_put_on_hold(ent))

TicketValidate == IsTicket /\ Query("validate", None, Ticket_validate(ent))

IsDataset == ent.kind = "dataset"

DatasetConstruct ==
    /\ ent = NoEntity /\ last = NoCall
    /\ \E args \in DatasetArgs :
         Setter("Dataset.__init__", args, None, Dataset_init(args))

DatasetSetId ==
    IsDataset /\ \E v \in IdInputs : Setter("id", None, None, BaseModel_set_id(ent, v))

DatasetSetName ==
    IsDataset /\ \E v \in NameInputs : Setter("name", None, None, Dataset_set_name(ent, v))

DatasetSetDescription ==
    IsDataset /\ \E v \in DescriptionInputs :
        Setter("description", None, None, Dataset_set_description(ent, v))

DatasetSetSource ==
    IsDataset /\ \E v \in DescriptionInputs :
        Setter("source", None, None, Dataset_set_source(ent, v))

DatasetSetClassification ==
    IsDataset /\ \E v \in ClassificationInputs :
        Setter("classification", None, None, Dataset_set_classification(ent, v))

DatasetSetFormat ==
    IsDataset /\ \E v \in FormatInputs :
        Setter("format", None, None, Dataset_set_format(ent, v))

DatasetSetSize ==
    IsDataset /\ \E v \in SizeInputs :
        Setter("size_mb", None, None, Dataset_set_size_mb(ent, v))

DatasetCanAccess ==
    IsDataset /\ \E r \in RoleInputs :
        Query("can_access", r, Dataset_can_access(ent, r))

DatasetUpgrade ==
    IsDataset /\ Mutator("upgrade_classification", None, ent.classification,
                         Dataset_upgrade_classification(ent))

DatasetDowngrade ==
    IsDataset /\ Mutator("downgrade_classification", None, ent.classification,
                         Dataset_downgrade_classification(ent))

DatasetValidate == IsDataset /\ Query("validate", None, Dataset_validate(ent))

IsUser == ent.kind = "user"

UserConstruct ==
    /\ ent = NoEntity /\ last = NoCall
    /\ \E args \in UserArgs : Setter("User.__init__", args, None, User_init(args))

UserSetId ==
    IsUser /\ \E v \in UserIdInputs : Setter("id", None, None, BaseModel_set_id(ent, v))

UserSetUsername ==
    IsUser /\ \E v \in NameInputs : Setter("username", None, None, User_set_username(ent, v))

UserSetPasswordHash ==
    IsUser /\ \E v \in PasswordHashInputs :
        Setter("password_hash", None, None, User_set_password_hash(ent, v))

UserSetRole ==
    IsUser /\ \E v \in RoleInputs : Setter("role", None, None, User_set_role(ent, v))

UserHasPermission ==
    IsUser /\ \E r \in RoleInputs :
        Query("has_permission", r, User_has_permission(ent, r))

UserValidate == IsUser /\ Query("validate", None, User_validate(ent))

Init == ent = NoEntity /\ last = NoCall

Next ==
    \/ IncidentConstruct
    \/ IncidentSetId
    \/ IncidentSetTitle
    \/ IncidentSetDescription
    \/ IncidentSetDate
    \/ IncidentSetSeverity
    \/ IncidentSetStatus
    \/ IncidentSetAssignedTo
    \/ IncidentCanTransitionTo
    \/ IncidentAssign
    \/ IncidentEscalate
    \/ IncidentResolve
    \/ IncidentClose
    \/ IncidentReopen
    \/ IncidentValidate
    \/ TicketConstruct
    \/ TicketSetId
    \/ TicketSetTitle
    \/ TicketSetDescription
    \/ TicketSetPriority
    \/ TicketSetStatus
    \/ TicketSetCategory
    \/ TicketSetAssignedTo
    \/ TicketCanTransitionTo
    \/ TicketAssign
    \/ TicketEscalate
    \/ TicketResolve
    \/ TicketClose
    \/ TicketReopen
    \/ TicketPutOnHold
    \/ TicketValidate
    \/ DatasetConstruct
    \/ DatasetSetId
    \/ DatasetSetName
    \/ DatasetSetDescription
    \/ DatasetSetSource
    \/ DatasetSetClassification
    \/ DatasetSetFormat
    \/ DatasetSetSize
    \/ DatasetCanAccess
    \/ DatasetUpgrade
    \/ DatasetDowngrade
    \/ DatasetValidate
    \/ UserConstruct
    \/ UserSetId
    \/ UserSetUsername
    \/ UserSetPasswordHash
    \/ UserSetRole
    \/ UserHasPermission
    \/ UserValidate

Spec == Init /\ [][Next]_vars

----------------------------------------------------------------------------
(***************************************************************************)
(* Ticket SLA check (ticket.py get_sla_hours, is_sla_breached).  A second  *)
(* specification, SlaSpec, gives the ticket each kind of created_at value  *)
(* and lets the clock be read at any time: `now` is the value that         *)
(* datetime.now() returns in the call, in minutes after NowIso.            *)
(***************************************************************************)
\* Outcome of a method call: the value returned, or the exception raised.
Returned(v) == [raised |-> FALSE, value |-> v]
Raised(exc) == [raised |-> TRUE, value |-> exc]

\* A Python value that is not a str, named by a token.
NonText == {"<int 20240601>"}
isinstance_str(value) == value \notin NonText

\* The datetime each ISO text denotes: minutes after NowIso, and whether it
\* carries a UTC offset (an aware datetime).
IsoTable ==
    ("2024-06-01T12:00:00" :> [minute |-> 0, aware |-> FALSE]) @@
    ("2024-05-29T12:00:00" :> [minute |-> -4320, aware |-> FALSE]) @@
    ("2024-06-01T12:00:00+00:00" :> [minute |-> 0, aware |-> TRUE])

\* datetime.fromisoformat(value)
fromisoformat(value) ==
    IF ~isinstance_str(value) THEN Raised("TypeError")
    ELSE IF value \notin DOMAIN IsoTable THEN Raised("ValueError")
    ELSE Returned(IsoTable[value])

\* datetime.now(): a naive datetime.
datetime_now(minute) == [minute |-> minute, aware |-> FALSE]

\* a - b on datetimes, in minutes; naive and aware do not mix.
datetime_sub(a, b) ==
    IF a.aware # b.aware THEN Raised("TypeError")
    ELSE Returned(a.minute - b.minute)

SlaCreatedAtInputs ==
    {None, Some("2024-05-29T12:00:00"), Some("2024-06-01T12:00:00+00:00"),
     Some("yesterday"), Some("<int 20240601>")}
NowInputs ==
    {-60, 0, 119, 120, 121, 479, 480, 481, 1439, 1440, 1441, 4319, 4320, 4321}

Ticket_is_open(self) == self.status \in {"open", "in_progress", "pending"}

Ticket_get_sla_hours(self) ==
    LET sla_mapping == [urgent |-> 2, high |-> 8, medium |-> 24, low |-> 72]
    IN IF self.priority \in DOMAIN sla_mapping
       THEN sla_mapping[self.priority]
       ELSE 24

\* Variant: breached from the limit on, not only past it.
Ticket_is_sla_breached_at_limit(self, now) ==
    IF self.created_at = "" THEN Returned(FALSE)
    ELSE LET created == fromisoformat(self.created_at)
             elapsed == datetime_sub(datetime_now(now), created.value)
         IN IF created.raised
            THEN IF created.value = "ValueError" THEN Returned(FALSE) ELSE created
            ELSE IF elapsed.raised
            THEN IF elapsed.value = "ValueError" THEN Returned(FALSE) ELSE elapsed
            ELSE Returned(elapsed.value >= Ticket_get_sla_hours(self) * 60
                          /\ Ticket_is_open(self))

\* hours_elapsed > sla_hours, with hours_elapsed = minutes / 60; only a
\* ValueError is caught.
Ticket_is_sla_breached(self, now) ==
    IF self.created_at = "" THEN Returned(FALSE)
    ELSE LET created == fromisoformat(self.created_at)
             elapsed == datetime_sub(datetime_now(now), created.value)
         IN IF created.raised
            THEN IF created.value = "ValueError" THEN Returned(FALSE) ELSE created
            ELSE IF elapsed.raised
            THEN IF elapsed.value = "ValueError" THEN Returned(FALSE) ELSE elapsed
            ELSE Returned(elapsed.value > Ticket_get_sla_hours(self) * 60
                          /\ Ticket_is_open(self))

\* A method call that leaves the object alone: what it returned or raised.
Method(op, arg, outcome) ==
    /\ ent' = ent
    /\ last' = Call(op, arg, None, outcome.raised, outcome.value)

SlaTicketArgs ==
    [title : {Letters(5)}, description : {<<"a">>},
     priority : Range(Ticket_VALID_PRIORITIES),
     status : Range(Ticket_VALID_STATUSES),
     category : {"other"}, requester : {None},
     assigned_to : {None}, id : {None}, created_at : SlaCreatedAtInputs]

SlaTicketConstruct ==
    /\ ent = NoEntity /\ last = NoCall
    /\ \E args \in SlaTicketArgs :
         Setter("Ticket.__init__", args, None, Ticket_init(args))

TicketGetSlaHours ==
    IsTicket /\ Query("get_sla_hours", None, Ticket_get_sla_hours(ent))

TicketIsSlaBreached ==
    IsTicket /\ \E now \in NowInputs :
        Method("is_sla_breached", now, Ticket_is_sla_breached(ent, now))

SlaNext ==
    \/ SlaTicketConstruct
    \/ TicketSetPriority
    \/ TicketSetStatus
    \/ TicketAssign
    \/ TicketEscalate
    \/ TicketResolve
    \/ TicketClose
    \/ TicketReopen
    \/ TicketPutOnHold
    \/ TicketGetSlaHours
    \/ TicketIsSlaBreached

SlaSpec == Init /\ [][SlaNext]_vars

----------------------------------------------------------------------------
(***************************************************************************)
(* Credentials: PasswordManager (utils/password_manager.py) and the        *)
(* account functions of services/user_service.py over the users table      *)
(* (data/users.py).  A third specification, CredentialSpec, has as its     *)
(* state the bcrypt build in use, the hash PasswordManager.hash_password   *)
(* issued last (with its plaintext) and the rows of the users table.       *)
(*                                                                         *)
(* A plaintext is a sequence of ASCII characters (one byte each).  A hash  *)
(* text is the sequence of its "$"-separated fields, "$2b$12$<body>" being *)
(* <<"", "2b", "12", body>>; the body of a bcrypt text is its salt and the *)
(* digest, and the digest stands for the key, salt and cost it was         *)
(* computed from.                                                          *)
(***************************************************************************)
\* bcrypt reads at most this many bytes of a password.
bcrypt_max_bytes == 72
PasswordManager_DEFAULT_ROUNDS == 12

\* Builds of the bcrypt package: before 5.0 hashpw ignores the bytes after
\* the 72nd, from 5.0 on it raises ValueError for a longer password.
BcryptBuilds == {"truncates", "rejects"}
\* Values os.urandom can give gensalt.
Salts == {"s1", "s2"}

LongPassword(c) == [i \in 1..bcrypt_max_bytes |-> "x"] \o <<c>>
PlainInputs == {<<>>, <<"a">>, LongPassword("a"), LongPassword("b")}
RoundsInputs == {4, PasswordManager_DEFAULT_ROUNDS}

Digits == <<"0", "1", "2", "3", "4", "5", "6", "7", "8", "9">>
\* b"%02d" % rounds
format_cost(rounds) == <<Digits[(rounds \div 10) + 1], Digits[(rounds % 10) + 1]>>
RECURSIVE digits_value(_)
digits_value(field) ==
    IF field = <<>> THEN 0
    ELSE 10 * digits_value(SubSeq(field, 1, Len(field) - 1))
         + IndexOf(Digits, field[Len(field)]) - 1
\* int(field)
py_int(field) ==
    IF field = <<>> \/ \E i \in DOMAIN field : field[i] \notin Range(Digits)
    THEN Raised("ValueError")
    ELSE Returned(digits_value(field))

EmptyText == << <<>> >>
SaltBody(salt) == [salt |-> salt, digest |-> None]
\* Stored hash values that bcrypt did not produce: "", "abc", "$2b$12",
\* "$2b$xx$<body>".
MalformedHashInputs ==
    {EmptyText,
     << <<"a", "b", "c">> >>,
     << <<>>, <<"2", "b">>, <<"1", "2">> >>,
     << <<>>, <<"2", "b">>, <<"x", "x">>, SaltBody("s1") >>}

\* bcrypt.gensalt(rounds), with the random bytes it drew.
bcrypt_gensalt(rounds, salt) ==
    IF rounds < 4 \/ rounds > 31 THEN Raised("ValueError")
    ELSE Returned(<< <<>>, <<"2", "b">>, format_cost(rounds), SaltBody(salt) >>)

bcrypt_valid_salt(text) ==
    /\ Len(text) = 4
    /\ text[1] = <<>>
    /\ text[2] = <<"2", "b">>
    /\ Len(text[3]) = 2
    /\ ~py_int(text[3]).raised
    /\ py_int(text[3]).value \in 4..31

\* bcrypt.hashpw(password, salt): the salt argument is a salt text or a
\* whole hash text, whose cost and salt are used.
bcrypt_hashpw(build, password, salt) ==
    IF ~bcrypt_valid_salt(salt) THEN Raised("ValueError")
    ELSE IF Len(password) > bcrypt_max_bytes /\ build = "rejects"
    THEN Raised("ValueError")
    ELSE LET key == IF Len(password) > bcrypt_max_bytes
                    THEN SubSeq(password, 1, bcrypt_max_bytes)
                    ELSE password
             digest == <<key, salt[4].salt, py_int(salt[3]).value>>
         IN Returned([salt EXCEPT ![4] = [salt |-> salt[4].salt, digest |-> digest]])

\* bcrypt.checkpw(password, hashed_password)
bcrypt_checkpw(build, password, hashed) ==
    LET again == bcrypt_hashpw(build, password, hashed)
    IN IF again.raised THEN again ELSE Returned(again.value = hashed)

(***************************************************************************)
(* PasswordManager                                                         *)
(***************************************************************************)
\* Variant: one salt for every call instead of the bytes just drawn.
PasswordManager_hash_password_fixed_salt(build, plain_password, rounds, salt) ==
    IF plain_password = <<>> THEN Raised("ValueError")
    ELSE LET s == bcrypt_gensalt(rounds, "s1")
         IN IF s.raised THEN s ELSE bcrypt_hashpw(build, plain_password, s.value)

PasswordManager_hash_password(build, plain_password, rounds, salt) ==
    IF plain_password = <<>> THEN Raised("ValueError")
    ELSE LET s == bcrypt_gensalt(rounds, salt)
         IN IF s.raised THEN s ELSE bcrypt_hashpw(build, plain_password, s.value)

PasswordManager_verify_password(build, plain_password, hashed_password) ==
    IF plain_password = <<>> \/ hashed_password = None \/ hashed_password = EmptyText
    THEN Returned(FALSE)
    ELSE LET checked == bcrypt_checkpw(build, plain_password, hashed_password)
         IN IF checked.raised THEN Returned(FALSE) ELSE checked

\* The body of the try block: encode, split(b'$')[2], int, compare.
PasswordManager_needs_rehash_try(hashed_password, rounds) ==
    IF hashed_password = None THEN Raised("AttributeError")
    ELSE IF Len(hashed_password) < 3 THEN Raised("IndexError")
    ELSE LET cost == py_int(hashed_password[3])
         IN IF cost.raised THEN cost ELSE Returned(cost.value < rounds)

\* Variant: a hash at the target cost is reported as needing a rehash.
PasswordManager_needs_rehash_at_target(hashed_password, rounds) ==
    IF hashed_password = None THEN Returned(TRUE)
    ELSE IF Len(hashed_password) < 3 THEN Returned(TRUE)
    ELSE LET cost == py_int(hashed_password[3])
         IN IF cost.raised THEN Returned(TRUE) ELSE Returned(cost.value <= rounds)

PasswordManager_needs_rehash(hashed_password, rounds) ==
    LET tried == PasswordManager_needs_rehash_try(hashed_password, rounds)
    IN IF tried.raised THEN Returned(TRUE) ELSE tried

PasswordManager_hash_and_verify(build, plain_password, salt) ==
    LET hashed == PasswordManager_hash_password(
                      build, plain_password, PasswordManager_DEFAULT_ROUNDS, salt)
    IN IF hashed.raised THEN hashed
       ELSE Returned([hashed |-> hashed.value,
                      verified |-> PasswordManager_verify_password(
                                       build, plain_password, hashed.value).value])

(***************************************************************************)
(* user_service and the users table                                        *)
(***************************************************************************)
\* A row of the users table; the table is the set of its rows.
UserRow(username, password_hash, role) ==
    [username |-> username, password_hash |-> password_hash, role |-> role]

\* Outcome of a call that writes the table.
DbReturned(v, users) == [raised |-> FALSE, value |-> v, users |-> users]
DbRaised(exc, users) == [raised |-> TRUE, value |-> exc, users |-> users]

\* INSERT INTO users: username is UNIQUE.
insert_user(users, username, password_hash, role) ==
    IF \E row \in users : row.username = username
    THEN DbRaised("IntegrityError", users)
    ELSE DbReturned(Cardinality(users) + 1,
                    users \cup {UserRow(username, password_hash, role)})

\* SELECT ... WHERE username = ?: the rows found (fetchone gives the one).
get_user_by_username(users, username) ==
    {row \in users : row.username = username}

\* bcrypt.gensalt() with its default cost, 12; no check of the plaintext.
user_service_hash_password(build, plain_text_password, salt) ==
    bcrypt_hashpw(build, plain_text_password, bcrypt_gensalt(12, salt).value)

register_user(build, users, username, password, role, salt) ==
    LET hashed == bcrypt_hashpw(build, password, bcrypt_gensalt(12, salt).value)
        inserted == insert_user(users, username, hashed.value, role)
    IN IF hashed.raised THEN DbRaised(hashed.value, users)
       ELSE IF inserted.raised THEN inserted
       ELSE DbReturned([ok |-> TRUE, msg |-> "registered successfully"],
                       inserted.users)

login_user(build, users, username, password) ==
    LET user == get_user_by_username(users, username)
        stored_hash == (CHOOSE row \in user : TRUE).password_hash
        checked == bcrypt_checkpw(build, password, stored_hash)
    IN IF user = {} THEN Returned([ok |-> FALSE, msg |-> "User not found."])
       ELSE IF checked.raised THEN checked
       ELSE IF checked.value
       THEN Returned([ok |-> TRUE, msg |-> "Login successful!"])
       ELSE Returned([ok |-> FALSE, msg |-> "Incorrect password."])

(***************************************************************************)
(* The calls of CredentialSpec.                                            *)
(***************************************************************************)
UsernameInputs == {"alice", "bob"}
TargetInputs == {4, PasswordManager_DEFAULT_ROUNDS}

NoCredentials(build) ==
    [kind |-> "credentials", bcrypt |-> build, issued |-> None, users |-> {}]
IsCredentials == ent.kind = "credentials"

\* The hash values a call can be given: None, the malformed texts, the hash
\* issued last and the stored ones.
HashInputs ==
    {None} \cup MalformedHashInputs
    \cup (IF ent.issued = None THEN {} ELSE {ent.issued[1].hash})
    \cup {row.password_hash : row \in ent.users}

HashPassword ==
    /\ IsCredentials
    /\ \E p \in PlainInputs, r \in RoundsInputs, s \in Salts :
         LET out == PasswordManager_hash_password(ent.bcrypt, p, r, s)
         IN /\ ent' = IF out.raised THEN ent
                      ELSE [ent EXCEPT !.issued = Some([plain |-> p, hash |-> out.value])]
            /\ last' = Call("PasswordManager.hash_password",
                            [plain |-> p, rounds |-> r, salt |-> s], ent.issued,
                            out.raised, out.value)

VerifyPassword ==
    /\ IsCredentials
    /\ \E p \in PlainInputs, h \in HashInputs :
         Method("PasswordManager.verify_password", [plain |-> p, hashed |-> h],
                PasswordManager_verify_password(ent.bcrypt, p, h))

NeedsRehash ==
    /\ IsCredentials
    /\ \E h \in HashInputs, t \in TargetInputs :
         Method("PasswordManager.needs_rehash", [hashed |-> h, rounds |-> t],
                PasswordManager_needs_rehash(h, t))

HashAndVerify ==
    /\ IsCredentials
    /\ \E p \in PlainInputs, s \in Salts :
         Method("PasswordManager.hash_and_verify", [plain |-> p],
                PasswordManager_hash_and_verify(ent.bcrypt, p, s))

ServiceHashPassword ==
    /\ IsCredentials
    /\ \E p \in PlainInputs, s \in Salts :
         Method("user_service.hash_password", [plain |-> p],
                user_service_hash_password(ent.bcrypt, p, s))

\* A call that writes the users table.
DbCall(op, arg, outcome) ==
    /\ ent' = [ent EXCEPT !.users = outcome.users]
    /\ last' = Call(op, arg, ent.users, outcome.raised, outcome.value)

InsertUser ==
    /\ IsCredentials
    /\ \E h \in MalformedHashInputs :
         DbCall("insert_user", [username |-> "alice", password_hash |-> h],
                insert_user(ent.users, "alice", h, "user"))

RegisterUser ==
    /\ IsCredentials
    /\ \E p \in PlainInputs, s \in Salts :
         DbCall("register_user", [username |-> "alice", password |-> p],
                register_user(ent.bcrypt, ent.users, "alice", p, "user", s))

LoginUser ==
    /\ IsCredentials
    /\ \E u \in UsernameInputs, p \in PlainInputs :
         Method("login_user", [username |-> u, password |-> p],
                login_user(ent.bcrypt, ent.users, u, p))

CredentialInit ==
    /\ ent \in {NoCredentials(build) : build \in BcryptBuilds}
    /\ last = NoCall

\* PasswordManager alone: the users table stays empty.
PasswordManagerNext ==
    \/ HashPassword
    \/ VerifyPassword
    \/ NeedsRehash
    \/ HashAndVerify

PasswordManagerSpec == CredentialInit /\ [][PasswordManagerNext]_vars

CredentialNext ==
    \/ PasswordManagerNext
    \/ ServiceHashPassword
    \/ InsertUser
    \/ RegisterUser
    \/ LoginUser

CredentialSpec == CredentialInit /\ [][CredentialNext]_vars

----------------------------------------------------------------------------
(***************************************************************************)
(* Password rules: Validator.validate_password (utils/validators.py),      *)
(* check_password_strength (services/user_service.py), and                 *)
(* calculate_password_strength and generate_temporary_password of          *)
(* PasswordManager.  These are functions of their argument (and, for the   *)
(* generator, of the random draws); a fourth specification, StrengthSpec,  *)
(* starts from one password or one requested length and applies them.      *)
(***************************************************************************)
MaxLower == 13
MaxLength == 16

\* string.ascii_lowercase, string.ascii_uppercase, "!@#$%^&*"
AsciiLower ==
    <<"a", "b", "c", "d", "e", "f", "g", "h", "i", "j", "k", "l", "m",
      "n", "o", "p", "q", "r", "s", "t", "u", "v", "w", "x", "y", "z">>
AsciiUpper ==
    <<"A", "B", "C", "D", "E", "F", "G", "H", "I", "J", "K", "L", "M",
      "N", "O", "P", "Q", "R", "S", "T", "U", "V", "W", "X", "Y", "Z">>
GeneratorSpecial == <<"!", "@", "#", "$", "%", "^", "&", "*">>
\* The characters of the class [!@#$%^&*(),.?":{}|<>]
ValidatorSpecial ==
    {"!", "@", "#", "$", "%", "^", "&", "*", "(", ")", ",", ".", "?", "\"",
     ":", "{", "}", "|", "<", ">"}
\* Characters that are neither letters nor digits nor in that class.
OtherChars == <<"_", "-">>

\* str methods on one ASCII character.
islower(c) == c \in Range(AsciiLower)
isupper(c) == c \in Range(AsciiUpper)
isdigit(c) == c \in Range(Digits)
isalnum(c) == islower(c) \/ isupper(c) \/ isdigit(c)
\* re.search(class, password)
re_search(class, password) == \E i \in DOMAIN password : password[i] \in class

Repeat(c, n) == [i \in 1..n |-> c]
\* A password with the first `lower` lowercase letters, one uppercase
\* letter, digit, listed symbol and other symbol as asked, then its first
\* character again up to `length` characters.
BuildPassword(lower, upper, digit, symbol, other, length) ==
    LET base == SubSeq(AsciiLower, 1, lower) \o SubSeq(AsciiUpper, 1, upper)
                \o SubSeq(Digits, 1, digit) \o SubSeq(GeneratorSpecial, 1, symbol)
                \o SubSeq(OtherChars, 1, other)
    IN IF base = <<>> THEN <<>> ELSE base \o Repeat(base[1], length - Len(base))
PasswordLengths == (0..MaxLength) \cup {128, 129}
PasswordInputs ==
    {BuildPassword(t[1], t[2], t[3], t[4], t[5], t[6]) :
        t \in {t \in (0..MaxLower) \X (0..1) \X (0..1) \X (0..1) \X (0..1)
                     \X PasswordLengths :
                  t[1] + t[2] + t[3] + t[4] + t[5] <= t[6]}}

\* Variant: six characters are enough.
Validator_validate_password_six(password) ==
    IF password = <<>> THEN Invalid("Password cannot be empty")
    ELSE IF Len(password) < 6
    THEN Invalid("Password must be at least 8 characters long")
    ELSE IF Len(password) > 128
    THEN Invalid("Password must be less than 128 characters")
    ELSE IF ~re_search(Range(AsciiUpper), password)
    THEN Invalid("Password must contain at least one uppercase letter")
    ELSE IF ~re_search(Range(AsciiLower), password)
    THEN Invalid("Password must contain at least one lowercase letter")
    ELSE IF ~re_search(Range(Digits), password)
    THEN Invalid("Password must contain at least one digit")
    ELSE IF ~re_search(ValidatorSpecial, password)
    THEN Invalid("Password must contain at least one special character")
    ELSE Valid

Validator_validate_password(password) ==
    IF password = <<>> THEN Invalid("Password cannot be empty")
    ELSE IF Len(password) < 8
    THEN Invalid("Password must be at least 8 characters long")
    ELSE IF Len(password) > 128
    THEN Invalid("Password must be less than 128 characters")
    ELSE IF ~re_search(Range(AsciiUpper), password)
    THEN Invalid("Password must contain at least one uppercase letter")
    ELSE IF ~re_search(Range(AsciiLower), password)
    THEN Invalid("Password must contain at least one lowercase letter")
    ELSE IF ~re_search(Range(Digits), password)
    THEN Invalid("Password must contain at least one digit")
    ELSE IF ~re_search(ValidatorSpecial, password)
    THEN Invalid("Password must contain at least one special character")
    ELSE Valid

special_character(c) == ~isalnum(c)

check_password_strength(password) ==
    LET has_upper == \E i \in DOMAIN password : isupper(password[i])
        has_lower == \E i \in DOMAIN password : islower(password[i])
        has_digit == \E i \in DOMAIN password : isdigit(password[i])
        has_special == \E i \in DOMAIN password : special_character(password[i])
    IN IF Len(password) < 8
       THEN [ok |-> FALSE, error |-> "Password must be at least 8 characters long."]
       ELSE IF ~has_upper
       THEN [ok |-> FALSE, error |-> "Password must contain an uppercase letter."]
       ELSE IF ~has_lower
       THEN [ok |-> FALSE, error |-> "Password must contain a lowercase letter."]
       ELSE IF ~has_digit
       THEN [ok |-> FALSE, error |-> "Password must contain a digit."]
       ELSE IF ~has_special
       THEN [ok |-> FALSE, error |-> "Password must contain a special character."]
       ELSE [ok |-> TRUE, error |-> "Password is strong."]

min(a, b) == IF a < b THEN a ELSE b
bool_int(b) == IF b THEN 1 ELSE 0
strength_label(score) ==
    IF score < 30 THEN "weak"
    ELSE IF score < 50 THEN "fair"
    ELSE IF score < 70 THEN "good"
    ELSE IF score < 90 THEN "strong"
    ELSE "very strong"

\* Variant: the length points are given to short passwords too.
PasswordManager_calculate_password_strength_any_length(password) ==
    LET length == Len(password)
        has_lower == \E i \in DOMAIN password : islower(password[i])
        has_upper == \E i \in DOMAIN password : isupper(password[i])
        has_digit == \E i \in DOMAIN password : isdigit(password[i])
        has_special == \E i \in DOMAIN password : ~isalnum(password[i])
        score == min(30, length * 2)
                 + (bool_int(has_lower) + bool_int(has_upper)
                    + bool_int(has_digit) + bool_int(has_special)) * 10
                 + min(30, Cardinality(Range(password)) * 2)
    IN IF password = <<>> THEN [score |-> 0, label |-> "weak"]
       ELSE [score |-> score, label |-> strength_label(score)]

PasswordManager_calculate_password_strength(password) ==
    LET length == Len(password)
        length_score == IF length >= 8 THEN min(30, length * 2) ELSE 0
        has_lower == \E i \in DOMAIN password : islower(password[i])
        has_upper == \E i \in DOMAIN password : isupper(password[i])
        has_digit == \E i \in DOMAIN password : isdigit(password[i])
        has_special == \E i \in DOMAIN password : ~isalnum(password[i])
        variety_score == (bool_int(has_lower) + bool_int(has_upper)
                          + bool_int(has_digit) + bool_int(has_special)) * 10
        unique_chars == Cardinality(Range(password))
        complexity_score == min(30, unique_chars * 2)
        score == length_score + variety_score + complexity_score
    IN IF password = <<>> THEN [score |-> 0, label |-> "weak"]
       ELSE [score |-> score, label |-> strength_label(score)]

\* Values the random draws take: secrets.choice over each alphabet and over
\* all_chars, and the rotation that stands for the shuffle's permutation.
DrawLower == {"a", "z"}
DrawUpper == {"A"}
DrawDigit == {"0"}
DrawSpecial == {"!", "*"}
DrawAll == DrawLower \cup DrawUpper \cup DrawDigit \cup DrawSpecial
LengthRequests == {-1, 0, 1, 2, 3, 4, 5, 7, 8, 12, 128, 129}

\* SystemRandom().shuffle: the list rotated by k places.
shuffle(password, k) ==
    [i \in 1..Len(password) |-> password[((i - 1 + k) % Len(password)) + 1]]

\* Variant: one fill character more than range(length - 4) gives.
PasswordManager_generate_temporary_password_long(length, lower, upper, digit, special, fill, k) ==
    shuffle(<<lower, upper, digit, special>> \o [i \in 1..(length - 3) |-> fill], k)

\* The four guaranteed draws, range(length - 4) further draws (each `fill`),
\* the shuffle, the join.
PasswordManager_generate_temporary_password(length, lower, upper, digit, special, fill, k) ==
    shuffle(<<lower, upper, digit, special>> \o [i \in 1..(length - 4) |-> fill], k)

(***************************************************************************)
(* The calls of StrengthSpec.                                              *)
(***************************************************************************)
APassword(p) == [kind |-> "password", value |-> p]
ARequest(n) == [kind |-> "request", length |-> n]
IsPassword == ent.kind = "password"

ValidatePassword ==
    IsPassword /\ Query("Validator.validate_password", None,
                        Validator_validate_password(ent.value))

CheckPasswordStrength ==
    IsPassword /\ Query("check_password_strength", None,
                        check_password_strength(ent.value))

CalculatePasswordStrength ==
    IsPassword /\ Query("calculate_password_strength", None,
                        PasswordManager_calculate_password_strength(ent.value))

\* The generated password is then the one the other calls are applied to.
GenerateTemporaryPassword ==
    /\ ent.kind = "request"
    /\ \E lower \in DrawLower, upper \in DrawUpper, digit \in DrawDigit,
          special \in DrawSpecial, fill \in DrawAll, k \in 0..3 :
         \E password \in {PasswordManager_generate_temporary_password(
                              ent.length, lower, upper, digit, special, fill, k)} :
            /\ ent' = APassword(password)
            /\ last' = Call("generate_temporary_password", ent.length, None,
                            FALSE, password)

StrengthInit ==
    /\ ent \in {APassword(p) : p \in PasswordInputs}
               \cup {ARequest(n) : n \in LengthRequests}
    /\ last = NoCall

StrengthNext ==
    \/ ValidatePassword
    \/ CheckPasswordStrength
    \/ CalculatePasswordStrength
    \/ GenerateTemporaryPassword

StrengthSpec == StrengthInit /\ [][StrengthNext]_vars

(***************************************************************************)
(* Registration through user_service.register_user with the inputs the    *)
(* dashboard forms pass on unchanged: any username text, any password      *)
(* text, and a role.  Usernames are sequences of characters here.          *)
(***************************************************************************)
RegistrationUsernames ==
    {<<"a", "b", "_">>, <<"a", "b">>, <<"a", "-", "c">>}
RegistrationPasswords == {<<"a">>, BuildPassword(5, 1, 1, 1, 0, 8)}
RegistrationRoles == {"user", "root"}
RegistrationSalts == {"s1"}

\* Validator.validate_username
Validator_validate_username(username) ==
    IF username = <<>> THEN Invalid("Username cannot be empty")
    ELSE IF Len(username) < 3
    THEN Invalid("Username must be at least 3 characters long")
    ELSE IF Len(username) > 50
    THEN Invalid("Username must be less than 50 characters")
    ELSE IF \E i \in DOMAIN username :
                ~isalnum(username[i]) /\ username[i] # "_"
    THEN Invalid("Username can only contain letters, numbers, and underscores")
    ELSE Valid

RegisterAnyUser ==
    /\ IsCredentials
    /\ \E u \in RegistrationUsernames, p \in RegistrationPasswords,
          r \in RegistrationRoles, s \in RegistrationSalts :
         DbCall("register_user", [username |-> u, password |-> p, role |-> r],
                register_user(ent.bcrypt, ent.users, u, p, r, s))

ValidateUsername ==
    /\ IsCredentials
    /\ \E u \in RegistrationUsernames :
         Method("Validator.validate_username", [username |-> u],
                Returned(Validator_validate_username(u)))

LoginAnyUser ==
    /\ IsCredentials
    /\ \E u \in RegistrationUsernames, p \in RegistrationPasswords :
         Method("login_user", [username |-> u, password |-> p],
                login_user(ent.bcrypt, ent.users, u, p))

RegistrationNext ==
    \/ RegisterAnyUser
    \/ ValidateUsername
    \/ LoginAnyUser

RegistrationSpec == CredentialInit /\ [][RegistrationNext]_vars

(***************************************************************************)
(* The CHECK constraints of the tables (data/schema.py).                   *)
(***************************************************************************)
cyber_incidents_CHECK ==
    [severity |-> {"low", "medium", "high", "critical"},
     status |-> {"open", "investigating", "resolved", "closed"}]
it_tickets_CHECK ==
    [priority |-> {"low", "medium", "high", "urgent"},
     status |-> {"open", "in_progress", "resolved", "closed"}]
datasets_metadata_CHECK ==
    [data_type |-> {"raw", "processed", "aggregated"},
     classification |-> {"public", "internal", "confidential", "restricted"}]

(***************************************************************************)
(* BaseRepository over the cyber_incidents table with Incident as its      *)
(* model class, and the DatabaseManager calls it makes.  The table is the  *)
(* set of its rows; a row is the model's to_dict() with the id the table   *)
(* gave it.  A sixth specification, RepositorySpec, holds one model object *)
(* and the table.                                                          *)
(***************************************************************************)
MaxRows == 2

RepoOutcome(raised, value, model, table, issued) ==
    [raised |-> raised, value |-> value, model |-> model, table |-> table,
     issued |-> issued]

\* DatabaseManager.execute_insert inside transaction(): the row gets the
\* next AUTOINCREMENT id; a CHECK failure rolls back and raises.
execute_insert(table, data) ==
    IF \/ data.severity \notin cyber_incidents_CHECK.severity
       \/ data.status \notin cyber_incidents_CHECK.status
    THEN DbRaised("IntegrityError", table)
    ELSE DbReturned(Cardinality(table) + 1,
                    table \cup {[data EXCEPT !.id = Some(Cardinality(table) + 1)]})

\* DatabaseManager.execute_update for UPDATE ... WHERE id = ?: rowcount.
execute_update(table, data, record_id) ==
    LET hit == {row \in table : row.id = Some(record_id)}
    IN IF \/ data.severity \notin cyber_incidents_CHECK.severity
          \/ data.status \notin cyber_incidents_CHECK.status
       THEN DbRaised("IntegrityError", table)
       ELSE DbReturned(Cardinality(hit),
                       IF hit = {} THEN table
                       ELSE (table \ hit) \cup {[data EXCEPT !.id = Some(record_id)]})

\* Variant: the INSERT runs before the model is validated.
BaseRepository_create_insert_first(table, model) ==
    LET checked == Incident_validate(model)
        inserted == execute_insert(table, model)
    IN IF inserted.raised
       THEN RepoOutcome(TRUE, inserted.value, model, table, <<"INSERT">>)
       ELSE IF ~checked.ok
       THEN RepoOutcome(TRUE, "ValueError", model, inserted.users, <<"INSERT">>)
       ELSE RepoOutcome(FALSE, inserted.value,
                        [model EXCEPT !.id = Some(inserted.value)],
                        inserted.users, <<"INSERT">>)

BaseRepository_create(table, model) ==
    LET checked == Incident_validate(model)
        inserted == execute_insert(table, model)
    IN IF ~checked.ok
       THEN RepoOutcome(TRUE, "ValueError", model, table, <<>>)
       ELSE IF inserted.raised
       THEN RepoOutcome(TRUE, inserted.value, model, table, <<"INSERT">>)
       ELSE RepoOutcome(FALSE, inserted.value,
                        [model EXCEPT !.id = Some(inserted.value)],
                        inserted.users, <<"INSERT">>)

\* `not model.id` is true for None and for 0.
BaseRepository_update(table, model) ==
    LET checked == Incident_validate(model)
        updated == execute_update(table, model, model.id[1])
    IN IF model.id = None \/ model.id = Some(0)
       THEN RepoOutcome(TRUE, "ValueError", model, table, <<>>)
       ELSE IF ~checked.ok
       THEN RepoOutcome(TRUE, "ValueError", model, table, <<>>)
       ELSE IF updated.raised
       THEN RepoOutcome(TRUE, updated.value, model, table, <<"UPDATE">>)
       ELSE RepoOutcome(FALSE, updated.value > 0, model, updated.users,
                        <<"UPDATE">>)

RepoIds == {None, Some(0), Some(1), Some(2)}
RepoTitles == {Letters(5), Letters(6), Padded(1, 3, 1)}
RepoModels ==
    {Incident_init([title |-> Letters(5), description |-> <<"a">>,
                    incident_date |-> "2024-01-15", severity |-> "medium",
                    status |-> "open", assigned_to |-> None,
                    reported_by |-> None, id |-> id,
                    created_at |-> None]).self : id \in RepoIds}

IsRepository == ent.kind = "repository"

\* A call on the model object held beside the repository.
ModelCall(op, arg, outcome) ==
    /\ ent' = [ent EXCEPT !.model = outcome.self]
    /\ last' = Call(op, arg, [model |-> ent.model, table |-> ent.table],
                    outcome.raised, None)

\* A call on the repository.
RepoCall(op, outcome) ==
    /\ ent' = [ent EXCEPT !.model = outcome.model, !.table = outcome.table]
    /\ last' = Call(op, None, [model |-> ent.model, table |-> ent.table],
                    outcome.raised,
                    [value |-> outcome.value, issued |-> outcome.issued])

ModelSetTitle ==
    /\ IsRepository
    /\ \E t \in RepoTitles :
         ModelCall("Incident.title", t, Incident_set_title(ent.model, t))

ModelSetId ==
    /\ IsRepository
    /\ \E id \in RepoIds :
         ModelCall("BaseModel.id", id, BaseModel_set_id(ent.model, id))

RepositoryCreate ==
    /\ IsRepository
    /\ Cardinality(ent.table) < MaxRows
    /\ RepoCall("BaseRepository.create",
                BaseRepository_create(ent.table, ent.model))

RepositoryUpdate ==
    /\ IsRepository
    /\ RepoCall("BaseRepository.update",
                BaseRepository_update(ent.table, ent.model))

RepositoryInit ==
    /\ ent \in {[kind |-> "repository", model |-> m, table |-> {}] :
                  m \in RepoModels}
    /\ last = NoCall

RepositoryNext ==
    \/ ModelSetTitle
    \/ ModelSetId
    \/ RepositoryCreate
    \/ RepositoryUpdate

RepositorySpec == RepositoryInit /\ [][RepositoryNext]_vars

(***************************************************************************)
(* validate() as a function of the fields.  __init__ assigns its           *)
(* arguments and then calls validate() on the object, so validate() runs   *)
(* on every combination of field values; a seventh specification,          *)
(* ValidationSpec, starts from an object as assigned and validates it.     *)
(***************************************************************************)
Incident_assigned(args) ==
    [kind |-> "incident",
     id |-> args.id,
     created_at |-> BaseModel_created_at(args.created_at),
     title |-> args.title,
     description |-> args.description,
     incident_date |-> args.incident_date,
     severity |-> args.severity,
     status |-> args.status,
     assigned_to |-> args.assigned_to,
     reported_by |-> args.reported_by]

Ticket_assigned(args) ==
    [kind |-> "ticket",
     id |-> args.id,
     created_at |-> BaseModel_created_at(args.created_at),
     title |-> args.title,
     description |-> args.description,
     priority |-> args.priority,
     status |-> args.status,
     category |-> args.category,
     requester |-> args.requester,
     assigned_to |-> args.assigned_to]

Dataset_assigned(args) ==
    [kind |-> "dataset",
     id |-> args.id,
     created_at |-> BaseModel_created_at(args.created_at),
     name |-> args.name,
     description |-> args.description,
     source |-> args.source,
     classification |-> args.classification,
     format |-> args.format,
     size_mb |-> args.size_mb,
     owner |-> args.owner]

ValidationInit ==
    /\ \/ ent \in {Incident_assigned(args) : args \in IncidentArgs}
       \/ ent \in {Ticket_assigned(args) : args \in TicketArgs}
       \/ ent \in {Dataset_assigned(args) : args \in DatasetArgs}
    /\ last = NoCall

ValidationNext ==
    \/ IncidentValidate
    \/ TicketValidate
    \/ DatasetValidate

ValidationSpec == ValidationInit /\ [][ValidationNext]_vars

(***************************************************************************)
(* Two callers, one working on an Incident and one on a Ticket, with their *)
(* calls interleaved in any order.  The state holds the two objects, the   *)
(* tables the operations look values up in, and, beside them, the object   *)
(* each caller would hold had its calls run alone in the same order.  An   *)
(* eighth specification, InterleavingSpec.                                 *)
(***************************************************************************)
SharedTables ==
    [incident_transitions |-> Incident_valid_transitions,
     ticket_transitions |-> Ticket_valid_transitions,
     sla_mapping |-> [urgent |-> 2, high |-> 8, medium |-> 24, low |-> 72],
     role_hierarchy |-> User_role_hierarchy,
     access_matrix |-> Dataset_access_matrix]

IncidentOps ==
    {<<op>> : op \in {"assign_to_analyst", "escalate", "resolve", "close",
                      "reopen"}}
    \cup {<<"status", v>> : v \in IncidentStatusInputs}
TicketOps ==
    {<<op>> : op \in {"assign_to_technician", "escalate", "resolve", "close",
                      "reopen", "put_on_hold"}}
    \cup {<<"status", v>> : v \in TicketStatusInputs}

\* The object after the call `op` on it.
Incident_call(op, self) ==
    CASE op[1] = "assign_to_analyst" -> Incident_assign_to_analyst(self, "alice")
      [] op[1] = "escalate" -> Incident_escalate(self)
      [] op[1] = "resolve" -> Incident_resolve(self)
      [] op[1] = "close" -> Incident_close(self)
      [] op[1] = "reopen" -> Incident_reopen(self)
      [] op[1] = "status" -> Incident_set_status(self, op[2]).self
Ticket_call(op, self) ==
    CASE op[1] = "assign_to_technician" -> Ticket_assign_to_technician(self, "bob")
      [] op[1] = "escalate" -> Ticket_escalate(self)
      [] op[1] = "resolve" -> Ticket_resolve(self)
      [] op[1] = "close" -> Ticket_close(self)
      [] op[1] = "reopen" -> Ticket_reopen(self)
      [] op[1] = "put_on_hold" -> Ticket_put_on_hold(self)
      [] op[1] = "status" -> Ticket_set_status(self, op[2]).self

\* Variant: closing a ticket also writes the status of the other object.
OnTicket_shared_status(callers, op) ==
    [callers EXCEPT !.ticket = Ticket_call(op, @),
                    !.incident.status =
                        IF op[1] = "close" THEN "closed" ELSE @]

\* A method assigns to the attributes of its own object only.
OnTicket(callers, op) == [callers EXCEPT !.ticket = Ticket_call(op, @)]
OnIncident(callers, op) == [callers EXCEPT !.incident = Incident_call(op, @)]

IsCallers == ent.kind = "callers"

CallOnIncident ==
    /\ IsCallers
    /\ \E op \in IncidentOps :
         /\ ent' = [OnIncident(ent, op) EXCEPT
                       !.alone.incident = Incident_call(op, @)]
         /\ last' = Call("incident", op, None, FALSE, None)

CallOnTicket ==
    /\ IsCallers
    /\ \E op \in TicketOps :
         /\ ent' = [OnTicket(ent, op) EXCEPT
                       !.alone.ticket = Ticket_call(op, @)]
         /\ last' = Call("ticket", op, None, FALSE, None)

InterleavingInit ==
    /\ \E incident \in {Incident_init(
                            [title |-> Letters(5), description |-> <<"a">>,
                             incident_date |-> "2024-01-15",
                             severity |-> "medium", status |-> "open",
                             assigned_to |-> None, reported_by |-> None,
                             id |-> None, created_at |-> None]).self},
          ticket \in {Ticket_init(
                          [title |-> Letters(5), description |-> <<"a">>,
                           priority |-> "medium", status |-> "open",
                           category |-> "other", requester |-> None,
                           assigned_to |-> None, id |-> None,
                           created_at |-> None]).self} :
         ent = [kind |-> "callers", incident |-> incident, ticket |-> ticket,
                tables |-> SharedTables,
                alone |-> [incident |-> incident, ticket |-> ticket]]
    /\ last = NoCall

InterleavingNext ==
    \/ CallOnIncident
    \/ CallOnTicket

InterleavingSpec == InterleavingInit /\ [][InterleavingNext]_vars

(***************************************************************************)
(* The dashboard (pages/home.py): the Streamlit session state and the      *)
(* login, register, logout and user-management steps of one browser        *)
(* session over the users table.  A ninth specification, DashboardSpec.    *)
(***************************************************************************)
\* st.session_state after the module-level initialisation.
NoSession == [logged_in |-> FALSE, user |-> None, role |-> None, page |-> "Home"]

\* str.split() of the messages login_user returns.
str_split ==
    ("Login successful!" :> <<"Login", "successful!">>)
    @@ ("User not found." :> <<"User", "not", "found.">>)
    @@ ("Incorrect password." :> <<"Incorrect", "password.">>)

DashboardPasswords == {<<"a">>, <<"b">>}

\* The Login button of login_page.
login_page_login(build, users, session, username, password) ==
    LET result == login_user(build, users, username, password)
        words == str_split[result.value.msg]
    IN IF result.raised THEN [raised |-> TRUE, value |-> result.value,
                              session |-> session]
       ELSE IF result.value.ok
       THEN [raised |-> FALSE, value |-> "Logged in!",
             session |-> [session EXCEPT !.logged_in = TRUE,
                                         !.user = Some(username),
                                         !.role = Some(words[Len(words)])]]
       ELSE [raised |-> FALSE, value |-> result.value.msg, session |-> session]

\* users_page: what it shows.
users_page(session) ==
    IF session.role # Some("admin") THEN "Access denied. Admin only."
    ELSE "Users Management"

\* The Logout button of main.
main_logout(session) ==
    [session EXCEPT !.logged_in = FALSE, !.user = None, !.role = None,
                    !.page = "Home"]

\* What main shows.
main_page(session) ==
    IF ~session.logged_in THEN "login_page" ELSE session.page

IsDashboard == ent.kind = "dashboard"

DashboardRegister ==
    /\ IsDashboard /\ ~ent.session.logged_in
    /\ \E u \in UsernameInputs, p \in DashboardPasswords, r \in Roles,
          s \in RegistrationSalts :
         DbCall("register", [username |-> u, password |-> p, role |-> r],
                register_user(ent.bcrypt, ent.users, u, p, r, s))

DashboardLogin ==
    /\ IsDashboard /\ ~ent.session.logged_in
    /\ \E u \in UsernameInputs, p \in DashboardPasswords :
         LET out == login_page_login(ent.bcrypt, ent.users, ent.session, u, p)
         IN /\ ent' = [ent EXCEPT !.session = out.session]
            /\ last' = Call("login", [username |-> u, password |-> p],
                            ent.session, out.raised, out.value)

DashboardUsersPage ==
    /\ IsDashboard /\ ent.session.logged_in
    /\ ent' = ent
    /\ last' = Call("users_page", None, ent.session, FALSE,
                    users_page(ent.session))

DashboardLogout ==
    /\ IsDashboard /\ ent.session.logged_in
    /\ ent' = [ent EXCEPT !.session = main_logout(ent.session)]
    /\ last' = Call("logout", None, ent.session, FALSE,
                    main_page(main_logout(ent.session)))

DashboardInit ==
    /\ ent \in {[kind |-> "dashboard", bcrypt |-> build, users |-> {},
                 session |-> NoSession] : build \in BcryptBuilds}
    /\ last = NoCall

DashboardNext ==
    \/ DashboardRegister
    \/ DashboardLogin
    \/ DashboardUsersPage
    \/ DashboardLogout

DashboardSpec == DashboardInit /\ [][DashboardNext]_vars

(***************************************************************************)
(* Walks through the transition tables: an Incident or Ticket constructed  *)
(* in any status, whose status is then only written when                   *)
(* can_transition_to allows the target.  A tenth specification, WalkSpec.  *)
(***************************************************************************)
MaxSteps == 4

IsWalk == ent.kind = "walk"

WalkStep(op, target, outcome) ==
    /\ ent' = [ent EXCEPT !.of = outcome.self, !.steps = @ + 1]
    /\ last' = Call(op, target, ent.of.status, outcome.raised, None)

IncidentTransition ==
    /\ IsWalk /\ ent.of.kind = "incident" /\ ent.steps < MaxSteps
    /\ \E t \in IncidentStatusInputs :
         /\ Incident_can_transition_to(ent.of, t)
         /\ WalkStep("Incident.status", t, Incident_set_status(ent.of, t))

TicketTransition ==
    /\ IsWalk /\ ent.of.kind = "ticket" /\ ent.steps < MaxSteps
    /\ \E t \in TicketStatusInputs :
         /\ Ticket_can_transition_to(ent.of, t)
         /\ WalkStep("Ticket.status", t, Ticket_set_status(ent.of, t))

WalkInit ==
    /\ \/ \E s \in Range(Incident_VALID_STATUSES) :
            ent = [kind |-> "walk", from |-> s, steps |-> 0,
                   of |-> Incident_init(
                              [title |-> Letters(5), description |-> <<"a">>,
                               incident_date |-> "2024-01-15",
                               severity |-> "medium", status |-> s,
                               assigned_to |-> None, reported_by |-> None,
                               id |-> None, created_at |-> None]).self]
       \/ \E s \in Range(Ticket_VALID_STATUSES) :
            ent = [kind |-> "walk", from |-> s, steps |-> 0,
                   of |-> Ticket_init(
                              [title |-> Letters(5), description |-> <<"a">>,
                               priority |-> "medium", status |-> s,
                               category |-> "other", requester |-> None,
                               assigned_to |-> None, id |-> None,
                               created_at |-> None]).self]
    /\ last = NoCall

WalkNext ==
    \/ IncidentTransition
    \/ TicketTransition

WalkSpec == WalkInit /\ [][WalkNext]_vars

(***************************************************************************)
(* DatabaseManager (core/database_manager.py): the class attribute         *)
(* _instance, the objects created, and threads that construct              *)
(* DatabaseManager() and use connect() and disconnect().  The class takes  *)
(* no lock, so the statements of __new__ and __init__ of different         *)
(* threads interleave; each action is one statement of one thread.  An     *)
(* eleventh specification, SingletonSpec.                                  *)
(***************************************************************************)
MaxConstructions == 2
Threads == {"t1", "t2"}

\* An object as object.__new__ leaves it: no attribute set yet.
NewObject == [initialized |-> "unset", connection |-> "unset"]

NoProcess ==
    [kind |-> "process", instance |-> None, objects |-> <<>>,
     threads |-> [t \in Threads |-> [pc |-> "idle", self |-> None, made |-> 0]],
     returned |-> {}, resets |-> 0]

IsProcess == ent.kind = "process"
At(t, pc) == IsProcess /\ ent.threads[t].pc = pc

\* One statement of thread t: the process after it and the call record.
Statement(t, op, pc, after, was, err) ==
    /\ ent' = [after EXCEPT !.threads[t].pc = pc]
    /\ last' = Call(op, t, was, err, None)

\* __new__: if cls._instance is None
NewCheck(t) ==
    /\ IsProcess /\ ent.threads[t].pc \in {"idle", "ready"}
    /\ ent.threads[t].made < MaxConstructions
    /\ Statement(t, "__new__: if cls._instance is None",
                 IF ent.instance = None THEN "new_assign" ELSE "new_return",
                 [ent EXCEPT !.threads[t].made = @ + 1], None, FALSE)

\* __new__: cls._instance = super().__new__(cls)
NewAssign(t) ==
    /\ At(t, "new_assign")
    /\ Statement(t, "__new__: cls._instance = object", "new_flag",
                 [ent EXCEPT !.objects = Append(@, NewObject),
                             !.instance = Some(Len(ent.objects) + 1)],
                 None, FALSE)

\* __new__: cls._instance._initialized = False
NewFlag(t) ==
    /\ At(t, "new_flag")
    /\ Statement(t, "__new__: cls._instance._initialized = False",
                 "new_return",
                 [ent EXCEPT !.objects[ent.instance[1]].initialized = "false"],
                 None, FALSE)

\* __new__: return cls._instance
NewReturn(t) ==
    /\ At(t, "new_return")
    /\ Statement(t, "__new__: return cls._instance", "init_check",
                 [ent EXCEPT !.threads[t].self = ent.instance,
                             !.returned = @ \cup {ent.instance[1]}],
                 None, FALSE)

\* __init__: if self._initialized: return (AttributeError when the
\* attribute was never set)
InitCheck(t) ==
    /\ At(t, "init_check")
    /\ LET flag == ent.objects[ent.threads[t].self[1]].initialized
       IN Statement(t, "__init__: if self._initialized",
                    CASE flag = "unset" -> "failed"
                      [] flag = "true" -> "ready"
                      [] flag = "false" -> "init_connection",
                    ent, None, flag = "unset")

\* __init__: self._connection = None
InitConnection(t) ==
    /\ At(t, "init_connection")
    /\ Statement(t, "__init__: self._connection = None", "init_flag",
                 [ent EXCEPT !.objects[ent.threads[t].self[1]].connection = "none",
                             !.resets = @ + 1],
                 ent.objects[ent.threads[t].self[1]].connection, FALSE)

\* __init__: self._initialized = True
InitFlag(t) ==
    /\ At(t, "init_flag")
    /\ Statement(t, "__init__: self._initialized = True", "ready",
                 [ent EXCEPT !.objects[ent.threads[t].self[1]].initialized = "true"],
                 None, FALSE)

\* connect(): opens a connection when the handle is None.
Connect(t) ==
    /\ At(t, "ready")
    /\ ent.objects[ent.threads[t].self[1]].connection # "unset"
    /\ Statement(t, "connect", "ready",
                 [ent EXCEPT !.objects[ent.threads[t].self[1]].connection = "open"],
                 ent.objects[ent.threads[t].self[1]].connection, FALSE)

\* disconnect(): closes the connection and sets the handle to None.
Disconnect(t) ==
    /\ At(t, "ready")
    /\ ent.objects[ent.threads[t].self[1]].connection # "unset"
    /\ Statement(t, "disconnect", "ready",
                 [ent EXCEPT !.objects[ent.threads[t].self[1]].connection = "none"],
                 ent.objects[ent.threads[t].self[1]].connection, FALSE)

SingletonInit == ent = NoProcess /\ last = NoCall

SingletonNext ==
    \E t \in Threads :
        \/ NewCheck(t)
        \/ NewAssign(t)
        \/ NewFlag(t)
        \/ NewReturn(t)
        \/ InitCheck(t)
        \/ InitConnection(t)
        \/ InitFlag(t)
        \/ Connect(t)
        \/ Disconnect(t)

SingletonSpec == SingletonInit /\ [][SingletonNext]_vars

----------------------------------------------------------------------------
(***************************************************************************)
(* The documented tables the properties compare the code with.             *)
(***************************************************************************)
DocIncidentStatuses == {"open", "investigating", "resolved", "closed"}
DocTicketStatuses == {"open", "in_progress", "pending", "resolved", "closed"}

DocIncidentTransitions ==
    {<<"open", "investigating">>, <<"open", "closed">>,
     <<"investigating", "resolved">>, <<"investigating", "open">>,
     <<"investigating", "closed">>,
     <<"resolved", "closed">>, <<"resolved", "open">>,
     <<"closed", "open">>}

DocTicketTransitions ==
    {<<"open", "in_progress">>, <<"open", "closed">>,
     <<"in_progress", "pending">>, <<"in_progress", "resolved">>,
     <<"in_progress", "open">>,
     <<"pending", "in_progress">>, <<"pending", "resolved">>,
     <<"pending", "closed">>,
     <<"resolved", "closed">>, <<"resolved", "open">>,
     <<"closed", "open">>}

DocTransitions(kind) ==
    IF kind = "incident" THEN DocIncidentTransitions ELSE DocTicketTransitions

DocLevelOrder(kind) ==
    IF kind = "incident" THEN <<"low", "medium", "high", "critical">>
    ELSE <<"low", "medium", "high", "urgent">>

DocClassificationOrder == <<"public", "internal", "confidential", "restricted">>

DocAccess ==
    {<<"public", "user">>, <<"public", "analyst">>, <<"public", "admin">>,
     <<"internal", "analyst">>, <<"internal", "admin">>,
     <<"confidential", "admin">>, <<"restricted", "admin">>}

DocLevel(role) ==
    CASE role = "user" -> 0
      [] role = "analyst" -> 1
      [] role = "admin" -> 2
      [] OTHER -> 0

HasStatus == ent.kind \in {"incident", "ticket"}
Level(e) == IF e.kind = "incident" THEN e.severity ELSE e.priority

\* The fields of `after` other than those in `fields` are those of `before`.
SameExcept(before, after, fields) ==
    /\ DOMAIN after = DOMAIN before
    /\ \A f \in DOMAIN before \ fields : after[f] = before[f]

\* validate() of the object, whatever its class.
validate(self) ==
    CASE self.kind = "incident" -> Incident_validate(self)
      [] self.kind = "ticket" -> Ticket_validate(self)
      [] self.kind = "dataset" -> Dataset_validate(self)
      [] self.kind = "user" -> User_validate(self)

(***************************************************************************)
(* C1: can_transition_to(target) of an Incident or Ticket returns true     *)
(* exactly when (current status, target) is in the documented transition   *)
(* table of that kind; false for a target equal to the current status and  *)
(* for a target that is no known status.                                   *)
(***************************************************************************)
C1_CanTransitionMatchesTable ==
    last.op = "can_transition_to" =>
        last.ret = (<<ent.status, last.arg>> \in DocTransitions(ent.kind))

\* A closed incident asked for open (allowed).
C1_Witness ==
    /\ last.op = "can_transition_to" /\ ent.kind = "incident"
    /\ ent.status = "closed" /\ last.arg = "open" /\ last.ret = TRUE

(***************************************************************************)
(* C2: a status write whose target the transition table does not allow     *)
(* from the current status fails with an error and leaves the status       *)
(* unchanged; an allowed one changes the status to the target.             *)
(***************************************************************************)
C2_StatusWriteFollowsTable ==
    (last.op = "status" /\ HasStatus) =>
        IF <<last.was, last.arg>> \in DocTransitions(ent.kind)
        THEN ~last.err /\ ent.status = last.arg
        ELSE last.err /\ ent.status = last.was

(***************************************************************************)
(* C3: assigning a handler records the handler as assignee; a status that  *)
(* was open becomes investigating (Incident) or in_progress (Ticket), any  *)
(* other status is unchanged; no other field changes.                      *)
(***************************************************************************)
C3_AssignEffect ==
    [][last'.op \in {"assign_to_analyst", "assign_to_technician"} =>
          /\ ~last'.err
          /\ ent'.assigned_to = Some(last'.arg)
          /\ ent'.status =
                 IF ent.status # "open" THEN ent.status
                 ELSE IF ent.kind = "incident" THEN "investigating"
                 ELSE "in_progress"
          /\ SameExcept(ent, ent', {"assigned_to", "status"})]_vars

\* A pending ticket that was assigned and stayed pending.
C3_Witness ==
    /\ last.op = "assign_to_technician" /\ last.was = "pending"
    /\ ent.status = "pending" /\ ent.assigned_to = Some("alice")

(***************************************************************************)
(* C4: after any sequence of calls, rejected ones included, the status of  *)
(* an Incident or Ticket is one of the enumerated statuses of its kind.    *)
(***************************************************************************)
C4_StatusEnumerated ==
    /\ ent.kind = "incident" => ent.status \in DocIncidentStatuses
    /\ ent.kind = "ticket" => ent.status \in DocTicketStatuses

\* A ticket after a rejected write of a status of the other kind.
C4_Witness ==
    /\ ent.kind = "ticket" /\ last.op = "status" /\ last.err
    /\ last.arg = "investigating"

(***************************************************************************)
(* C5: after construction and any sequence of successful setter and        *)
(* mutator calls, validate() of the entity returns valid.                  *)
(***************************************************************************)
C5_AlwaysValid == ent # NoEntity => validate(ent).ok

(***************************************************************************)
(* C6: a setter that raises leaves every field as it was, and a            *)
(* constructor given an invalid field raises and produces no entity.       *)
(***************************************************************************)
IsConstructor(op) ==
    op \in {"Incident.__init__", "Ticket.__init__", "Dataset.__init__", "User.__init__"}

\* The documented constraints of the constructor arguments.
DocValidId(args) == args.id = None \/ args.id[1] >= 0

DocValidArgs(op, args) ==
    CASE op = "Incident.__init__" ->
           /\ DocValidId(args)
           /\ Len(args.title) >= 5
           /\ args.description # <<>>
           /\ args.incident_date \in {"2024-01-15"}
           /\ args.severity \in {"low", "medium", "high", "critical"}
           /\ args.status \in DocIncidentStatuses
      [] op = "Ticket.__init__" ->
           /\ DocValidId(args)
           /\ Len(args.title) >= 5
           /\ args.description # <<>>
           /\ args.priority \in {"low", "medium", "high", "urgent"}
           /\ args.status \in DocTicketStatuses
           /\ args.category \in
                  {"hardware", "software", "network", "security", "access", "other"}
      [] op = "Dataset.__init__" ->
           /\ DocValidId(args)
           /\ Len(args.name) >= 3
           /\ args.description # <<>>
           /\ args.source # <<>>
           /\ args.classification \in
                  {"public", "internal", "confidential", "restricted"}
           /\ args.format \in {"csv", "json", "xml", "parquet", "sql", "other"}
           /\ (args.size_mb = None \/ args.size_mb[1] >= 0)
      [] op = "User.__init__" ->
           /\ DocValidId(args)
           /\ Len(args.username) >= 3
           /\ args.password_hash # ""
           /\ args.role \in {"user", "analyst", "admin"}

C6_RejectedChangeAtomic ==
    /\ [][last'.err => ent' = ent]_vars
    /\ [](IsConstructor(last.op) /\ ~DocValidArgs(last.op, last.arg) =>
              last.err /\ ent = NoEntity)

\* An incident whose title setter has just rejected a value.
C6_Witness == ent.kind = "incident" /\ last.op = "title" /\ last.err

(***************************************************************************)
(* C7: escalate moves the severity (Incident) or priority (Ticket) up by   *)
(* exactly one position below the ceiling and changes nothing, without an  *)
(* error, at the ceiling; it never changes the status or the assignee.     *)
(***************************************************************************)
C7_EscalateOneStep ==
    [][last'.op = "escalate" =>
          LET order == DocLevelOrder(ent.kind)
              pos == IndexOf(order, Level(ent))
          IN /\ ~last'.err
             /\ Level(ent') = IF pos < 4 THEN order[pos + 1] ELSE Level(ent)
             /\ pos = 4 => ent' = ent
             /\ ent'.status = ent.status
             /\ ent'.assigned_to = ent.assigned_to]_vars

\* An incident escalated at the ceiling.
C7_Witness ==
    /\ ent.kind = "incident" /\ last.op = "escalate"
    /\ last.was = "critical" /\ ent.severity = "critical" /\ ~last.err

(***************************************************************************)
(* C8: upgrade_classification and downgrade_classification move the        *)
(* classification by exactly one position along public, internal,          *)
(* confidential, restricted, and leave it unchanged at restricted and at   *)
(* public; downgrade after upgrade restores every value but restricted,    *)
(* upgrade after downgrade every value but public.                         *)
(***************************************************************************)
C8_ClassificationSteps ==
    /\ [][last'.op \in {"upgrade_classification", "downgrade_classification"} =>
             LET pos == IndexOf(DocClassificationOrder, ent.classification)
                 to == IF last'.op = "upgrade_classification"
                       THEN (IF pos < 4 THEN pos + 1 ELSE pos)
                       ELSE (IF pos > 1 THEN pos - 1 ELSE pos)
             IN /\ ~last'.err
                /\ ent'.classification = DocClassificationOrder[to]
                /\ SameExcept(ent, ent', {"classification"})]_vars
    /\ [](ent.kind = "dataset" =>
             /\ ent.classification # "restricted" =>
                    Dataset_downgrade_classification(
                        Dataset_upgrade_classification(ent)) = ent
             /\ ent.classification # "public" =>
                    Dataset_upgrade_classification(
                        Dataset_downgrade_classification(ent)) = ent)

\* A public dataset downgraded: still public.
C8_Witness ==
    /\ last.op = "downgrade_classification" /\ last.was = "public"
    /\ ent.classification = "public" /\ ~last.err

(***************************************************************************)
(* C9: can_access(role) is true exactly for the pairs of the documented    *)
(* access matrix and false for every unknown role; access is monotone in   *)
(* the role level and in the sensitivity of the classification.            *)
(***************************************************************************)
C9_AccessMatrix ==
    /\ last.op = "can_access" =>
           last.ret = (<<ent.classification, last.arg>> \in DocAccess)
    /\ ent.kind = "dataset" =>
           \A r \in RoleInputs :
               Dataset_can_access(ent, r) =>
                   /\ \A higher \in RoleInputs :
                          DocLevel(higher) > DocLevel(r) =>
                              Dataset_can_access(ent, higher)
                   /\ \A i \in 1..IndexOf(DocClassificationOrder, ent.classification) :
                          Dataset_can_access(
                              [ent EXCEPT !.classification = DocClassificationOrder[i]], r)

\* An analyst refused a confidential dataset.
C9_Witness ==
    /\ last.op = "can_access" /\ last.arg = "analyst"
    /\ ent.classification = "confidential" /\ last.ret = FALSE

(***************************************************************************)
(* C10: has_permission(required_role) is true exactly when the level of    *)
(* the user's role is at least the level of the required role, with        *)
(* user 0, analyst 1, admin 2 and every unknown role name at level 0.      *)
(***************************************************************************)
C10_HasPermissionLevels ==
    last.op = "has_permission" =>
        last.ret = (DocLevel(ent.role) >= DocLevel(last.arg))

\* A plain user asked for an unknown role: granted, both at level 0.
C10_Witness ==
    /\ last.op = "has_permission" /\ ent.role = "user"
    /\ last.arg = "guest" /\ last.ret = TRUE

(***************************************************************************)
(* SLA properties, checked under SlaSpec.                                  *)
(***************************************************************************)
DocSlaHours == [urgent |-> 2, high |-> 8, medium |-> 24, low |-> 72]
DocSlaStatuses == {"open", "in_progress", "pending"}

\* The creation time is a date the local clock can be compared with.
CreatedUsable(e) ==
    /\ e.created_at \in DOMAIN IsoTable
    /\ ~IsoTable[e.created_at].aware
\* Minutes from the creation time to `now`.
ElapsedMinutes(e, now) == now - IsoTable[e.created_at].minute
Overdue(e, now) ==
    CreatedUsable(e) /\ ElapsedMinutes(e, now) > DocSlaHours[e.priority] * 60

\* C11: is_sla_breached answers true exactly when the time since created_at
\* is strictly more than the SLA hours of the current priority (urgent 2,
\* high 8, medium 24, low 72) and the status is open, in_progress or
\* pending: false at exactly the limit, false for resolved and closed
\* tickets, and true again once an overdue closed ticket is reopened.
C11_SlaBreachedStrict ==
    /\ (last.op = "is_sla_breached" /\ ~last.err) =>
           last.ret = (Overdue(ent, last.arg) /\ ent.status \in DocSlaStatuses)
    /\ (IsTicket /\ ent.status = "closed") =>
           \A now \in NowInputs :
               Overdue(ent, now) =>
                   /\ Ticket_is_sla_breached(ent, now) = Returned(FALSE)
                   /\ Ticket_is_sla_breached(Ticket_reopen(ent), now) = Returned(TRUE)

\* A high-priority ticket, reopened, is asked one minute past its 8 hours.
C11_Witness ==
    /\ last.op = "is_sla_breached" /\ ~last.err /\ last.ret = TRUE
    /\ ent.priority = "high" /\ ent.status = "open"
    /\ ElapsedMinutes(ent, last.arg) = 481

\* C12: is_sla_breached never raises, whatever created_at holds (missing,
\* text that is not a date, a date with or without a time zone, a value that
\* is not text); it answers false when the creation time cannot be used.
C12_SlaNeverRaises ==
    last.op = "is_sla_breached" =>
        /\ ~last.err
        /\ ~CreatedUsable(ent) => last.ret = FALSE

(***************************************************************************)
(* Credential properties.  C13, C15 and C17 are checked under              *)
(* PasswordManagerSpec, C14 and C16 under CredentialSpec.                  *)
(***************************************************************************)
\* The hash in the call's argument is the one hash_password issued last.
VerifiesIssued ==
    /\ last.op = "PasswordManager.verify_password"
    /\ ent.issued # None
    /\ last.arg.hashed = ent.issued[1].hash

\* C13: verify_password(p, hash_password(q)) is true when p = q and false
\* when p differs from q, for every plaintext and every valid work factor
\* used for hashing (the work factor is read from the hash).
C13_VerifyIffSamePlaintext ==
    /\ VerifiesIssued => last.ret = (last.arg.plain = ent.issued[1].plain)
    /\ (last.op = "PasswordManager.hash_and_verify" /\ ~last.err) =>
           last.ret.verified

\* A text that bcrypt produced: a valid prefix, cost and salt, and a digest.
DocBcryptHash(h) ==
    /\ h # None
    /\ Len(h) = 4
    /\ bcrypt_valid_salt(h)
    /\ h[4].digest # None

\* C14: password verification never raises: for any plaintext and any
\* stored hash, empty and malformed ones included, it answers false, both
\* in PasswordManager.verify_password and in login_user.
C14_VerificationNeverRaises ==
    /\ last.op = "PasswordManager.verify_password" =>
           /\ ~last.err
           /\ ~DocBcryptHash(last.arg.hashed) => last.ret = FALSE
    /\ last.op = "login_user" =>
           /\ ~last.err
           /\ (\E row \in ent.users :
                   row.username = last.arg.username
                   /\ ~DocBcryptHash(row.password_hash)) => ~last.ret.ok

\* hash_password returned a hash for the plaintext it had last hashed.
HashedAgain ==
    /\ last.op = "PasswordManager.hash_password"
    /\ ~last.err
    /\ last.was # None
    /\ last.was[1].plain = last.arg.plain

C16_EmptyPlaintextRejected ==
    /\ (last.op \in {"PasswordManager.hash_password",
                     "PasswordManager.hash_and_verify",
                     "user_service.hash_password"}
        /\ last.arg.plain = <<>>) => last.err
    /\ (last.op = "register_user" /\ last.arg.password = <<>>) =>
           last.err /\ ent.users = last.was

\* The work factor written in a hash text, for the texts that have one.
DocCostOf == (<<"0", "4">> :> 4) @@ (<<"1", "2">> :> 12)
DocHasCost(h) == h # None /\ Len(h) >= 3 /\ h[3] \in DOMAIN DocCostOf

\* C17: needs_rehash(hash, target) is true exactly when the work factor in
\* the hash is lower than the target, false when it is equal or higher, and
\* true, never an error, for every hash whose work factor cannot be parsed
\* (the empty text and a value that is not text included).
C17_NeedsRehash ==
    last.op = "PasswordManager.needs_rehash" =>
        /\ ~last.err
        /\ last.ret = IF DocHasCost(last.arg.hashed)
                      THEN DocCostOf[last.arg.hashed[3]] < last.arg.rounds
                      ELSE TRUE

\* A hash issued at cost 4 is asked about with target 12.
C17_Witness ==
    /\ last.op = "PasswordManager.needs_rehash"
    /\ DocBcryptHash(last.arg.hashed)
    /\ DocCostOf[last.arg.hashed[3]] = 4
    /\ last.arg.rounds = 12
    /\ last.ret = TRUE

(***************************************************************************)
(* Password rule properties, checked under StrengthSpec.                   *)
(***************************************************************************)
\* The rule a verdict names (either function's wording); "" is acceptance.
\* The rejection of the empty password counts as too short.
DocRuleOf(result) ==
    IF result.ok THEN ""
    ELSE IF result.error \in {"Password cannot be empty",
                              "Password must be at least 8 characters long",
                              "Password must be at least 8 characters long."}
    THEN "too_short"
    ELSE IF result.error \in {"Password must contain at least one uppercase letter",
                              "Password must contain an uppercase letter."}
    THEN "uppercase"
    ELSE IF result.error \in {"Password must contain at least one lowercase letter",
                              "Password must contain a lowercase letter."}
    THEN "lowercase"
    ELSE IF result.error \in {"Password must contain at least one digit",
                              "Password must contain a digit."}
    THEN "digit"
    ELSE IF result.error \in {"Password must contain at least one special character",
                              "Password must contain a special character."}
    THEN "symbol"
    ELSE "other"

\* The character classes a password has characters of.
DocClasses(password) ==
    {class \in {"lower", "upper", "digit", "symbol"} :
        \E c \in Range(password) :
            CASE class = "lower" -> c \in Range(AsciiLower)
              [] class = "upper" -> c \in Range(AsciiUpper)
              [] class = "digit" -> c \in Range(Digits)
              [] class = "symbol" ->
                    c \notin Range(AsciiLower) \cup Range(AsciiUpper) \cup Range(Digits)}

\* The first rule violated, in the documented order.
DocFirstViolated(password) ==
    IF Len(password) < 8 THEN "too_short"
    ELSE IF "upper" \notin DocClasses(password) THEN "uppercase"
    ELSE IF "lower" \notin DocClasses(password) THEN "lowercase"
    ELSE IF "digit" \notin DocClasses(password) THEN "digit"
    ELSE IF "symbol" \notin DocClasses(password) THEN "symbol"
    ELSE ""

\* C18: password validation checks, in this order, too short (under 8
\* characters), no uppercase letter, no lowercase letter, no digit, no
\* symbol, and reports the first rule violated, accepting a password that
\* violates none; Validator.validate_password and check_password_strength
\* give the same verdict and the same first rule for every password.
C18_SameVerdictSameRule ==
    /\ last.op = "Validator.validate_password" =>
           /\ DocRuleOf(last.ret) = DocFirstViolated(ent.value)
           /\ last.ret.ok = check_password_strength(ent.value).ok
           /\ DocRuleOf(last.ret) = DocRuleOf(check_password_strength(ent.value))
    /\ last.op = "check_password_strength" =>
           /\ DocRuleOf(last.ret) = DocFirstViolated(ent.value)
           /\ last.ret.ok = Validator_validate_password(ent.value).ok
           /\ DocRuleOf(last.ret) = DocRuleOf(Validator_validate_password(ent.value))

DocLabel(score) ==
    CASE score < 30 -> "weak"
      [] score >= 30 /\ score < 50 -> "fair"
      [] score >= 50 /\ score < 70 -> "good"
      [] score >= 70 /\ score < 90 -> "strong"
      [] score >= 90 -> "very strong"
DocVariety(password) == 10 * Cardinality(DocClasses(password))
DocDistinct(password) == min(30, 2 * Cardinality(Range(password)))

\* C19 as stated: the score is min(30, 2 * length) + 10 per class present +
\* min(30, 2 * distinct characters), the length term counting at every
\* length, with a password under 8 characters labelled weak; the score is
\* within 0..100, the empty password gives (0, weak), and the labels are
\* weak < 30, fair < 50, good < 70, strong < 90, very strong from 90.
C19_ScoreAsStated ==
    last.op = "calculate_password_strength" =>
        /\ last.ret.score = min(30, 2 * Len(ent.value))
                            + DocVariety(ent.value) + DocDistinct(ent.value)
        /\ last.ret.score \in 0..100
        /\ last.ret.label = IF Len(ent.value) < 8 THEN "weak"
                            ELSE DocLabel(last.ret.score)

\* C19, amended: the length term min(30, 2 * length) is added only from 8
\* characters on (a shorter password gets no length points), and the label
\* follows from the score alone, for short passwords too.
C19_ScoreLengthFromEight ==
    last.op = "calculate_password_strength" =>
        /\ last.ret.score = (IF Len(ent.value) >= 8
                             THEN min(30, 2 * Len(ent.value)) ELSE 0)
                            + DocVariety(ent.value) + DocDistinct(ent.value)
        /\ last.ret.score \in 0..100
        /\ last.ret.label = DocLabel(last.ret.score)
        /\ ent.value = <<>> => last.ret = [score |-> 0, label |-> "weak"]

\* A password of 7 characters scored 54 and labelled good.
C19_Witness ==
    /\ last.op = "calculate_password_strength"
    /\ Len(ent.value) = 7
    /\ last.ret = [score |-> 54, label |-> "good"]

DocAllClasses == {"lower", "upper", "digit", "symbol"}

DocUsernameOk(username) ==
    /\ Len(username) >= 3
    /\ \A i \in DOMAIN username : isalnum(username[i]) \/ username[i] = "_"
DocPasswordOk(password) == Validator_validate_password(password) = Valid
DocRoles == {"user", "analyst", "admin"}

\* C21: register_user inserts a row only when the username has at least 3
\* characters that are letters, digits or underscore, the password passes
\* the strength rules and the role is user, analyst or admin; otherwise it
\* returns a validation failure and the stored users are unchanged.
C21_RegistrationValidates ==
    (/\ last.op = "register_user"
     /\ ~(/\ DocUsernameOk(last.arg.username)
          /\ DocPasswordOk(last.arg.password)
          /\ last.arg.role \in DocRoles)) =>
        /\ last.err \/ ~last.ret.ok
        /\ ent.users = last.was

RepoWrote == last.op \in {"BaseRepository.create", "BaseRepository.update"}

\* C22: BaseRepository.create and update run model.validate() before any
\* write: for a model that fails validation they raise, issue no INSERT or
\* UPDATE and leave the table unchanged; update issues no write for a model
\* without an id; after a successful create the model's id is the id of the
\* inserted row.
C22_ValidateBeforeWrite ==
    /\ (RepoWrote /\ ~Incident_validate(last.was.model).ok) =>
           /\ last.err
           /\ last.ret.issued = <<>>
           /\ ent.table = last.was.table
    /\ (last.op = "BaseRepository.update"
        /\ last.was.model.id \in {None, Some(0)}) =>
           /\ last.err
           /\ last.ret.issued = <<>>
           /\ ent.table = last.was.table
    /\ (last.op = "BaseRepository.create" /\ ~last.err) =>
           /\ ent.model.id = Some(last.ret.value)
           /\ ent.table \ last.was.table =
                  {[last.was.model EXCEPT !.id = Some(last.ret.value)]}
           /\ \A row \in last.was.table : row.id # ent.model.id

\* A create refused for an invalid model with a row already stored.
C22_Witness ==
    /\ last.op = "BaseRepository.create"
    /\ ~Incident_validate(last.was.model).ok
    /\ last.err
    /\ ent.table # {}
    /\ ent.table = last.was.table

\* C23: the enumerations of the models and of the schema agree: the
\* severity, status, priority and classification an Incident, Ticket or
\* Dataset holds satisfies the CHECK constraint of its column, and every
\* value a column accepts is accepted by the model.
C23_ModelAndSchemaAgree ==
    /\ ent.kind = "incident" =>
           /\ ent.severity \in cyber_incidents_CHECK.severity
           /\ ent.status \in cyber_incidents_CHECK.status
    /\ ent.kind = "ticket" =>
           /\ ent.priority \in it_tickets_CHECK.priority
           /\ ent.status \in it_tickets_CHECK.status
    /\ ent.kind = "dataset" =>
           ent.classification \in datasets_metadata_CHECK.classification
    /\ cyber_incidents_CHECK.severity \subseteq Range(Incident_VALID_SEVERITIES)
    /\ cyber_incidents_CHECK.status \subseteq Range(Incident_VALID_STATUSES)
    /\ it_tickets_CHECK.priority \subseteq Range(Ticket_VALID_PRIORITIES)
    /\ it_tickets_CHECK.status \subseteq Range(Ticket_VALID_STATUSES)
    /\ datasets_metadata_CHECK.classification
           \subseteq Range(Dataset_VALID_CLASSIFICATIONS)

\* The documented order of the validated fields, the documented constraint
\* of each field, and the field each message is about.
DocFieldOrder(kind) ==
    CASE kind = "incident" ->
           <<"title", "description", "incident_date", "severity", "status">>
      [] kind = "ticket" ->
           <<"title", "description", "priority", "status", "category">>
      [] kind = "dataset" ->
           <<"name", "description", "source", "classification", "format",
             "size_mb">>
DocBlank(text) == \A i \in DOMAIN text : text[i] = " "
DocFieldFails(e, field) ==
    CASE field = "title" -> DocBlank(e.title) \/ Len(e.title) < 5
      [] field = "name" -> DocBlank(e.name) \/ Len(e.name) < 3
      [] field = "description" -> DocBlank(e.description)
      [] field = "source" -> DocBlank(e.source)
      [] field = "incident_date" -> e.incident_date # "2024-01-15"
      [] field = "severity" ->
           e.severity \notin {"low", "medium", "high", "critical"}
      [] field = "priority" ->
           e.priority \notin {"low", "medium", "high", "urgent"}
      [] field = "status" ->
           e.status \notin (IF e.kind = "incident" THEN DocIncidentStatuses
                            ELSE DocTicketStatuses)
      [] field = "category" ->
           e.category \notin {"hardware", "software", "network", "security",
                              "access", "other"}
      [] field = "classification" ->
           e.classification \notin Range(DocClassificationOrder)
      [] field = "format" ->
           e.format \notin {"csv", "json", "xml", "parquet", "sql", "other"}
      [] field = "size_mb" -> e.size_mb # None /\ e.size_mb[1] < 0
DocFieldOf(message) ==
    CASE message \in {"Title cannot be empty",
                      "Title must be at least 5 characters long"} -> "title"
      [] message \in {"Name cannot be empty",
                      "Name must be at least 3 characters long"} -> "name"
      [] message = "Description cannot be empty" -> "description"
      [] message = "Source cannot be empty" -> "source"
      [] message = "Invalid date format. Use YYYY-MM-DD" -> "incident_date"
      [] message = "Severity must be one of: low, medium, high, critical" ->
           "severity"
      [] message = "Priority must be one of: low, medium, high, urgent" ->
           "priority"
      [] message \in {"Status must be one of: open, investigating, resolved, closed",
                      "Status must be one of: open, in_progress, pending, resolved, closed"} ->
           "status"
      [] message = "Category must be one of: hardware, software, network, security, access, other" ->
           "category"
      [] message = "Classification must be one of: public, internal, confidential, restricted" ->
           "classification"
      [] message = "Format must be one of: csv, json, xml, parquet, sql, other" ->
           "format"
      [] message = "Size must be a positive number" -> "size_mb"
      [] OTHER -> "none of the documented fields"
DocFailing(e) ==
    {i \in DOMAIN DocFieldOrder(e.kind) :
        DocFieldFails(e, DocFieldOrder(e.kind)[i])}
\* The first failing field in the documented order.
DocFirstFailing(e) ==
    DocFieldOrder(e.kind)[CHOOSE i \in DocFailing(e) :
                              \A j \in DocFailing(e) : i <= j]
DocReportsFirst(e, result) ==
    IF DocFailing(e) = {} THEN result.ok
    ELSE ~result.ok /\ DocFieldOf(result.error) = DocFirstFailing(e)

\* C24 as stated: validate() of an Incident, Ticket or Dataset reports only
\* the first failing field in the fixed order (Incident: title,
\* description, date, severity, status; Ticket: title, description,
\* priority, status, category; Dataset: name, description, source,
\* classification, format, size), for every entity.
C24_FirstFailingField ==
    last.op = "validate" => DocReportsFirst(ent, last.ret)

\* C24 as amended: a negative id is reported before any field; for every
\* other entity validate() reports only the first failing field in the
\* fixed order.
C24_FirstFailingFieldAfterId ==
    last.op = "validate" =>
        IF ent.id # None /\ ent.id[1] < 0
        THEN last.ret = Invalid("ID must be a positive integer")
        ELSE DocReportsFirst(ent, last.ret)

\* A ticket with a bad priority, a bad status and a bad category gets the
\* message about its priority.
C24_Witness ==
    /\ last.op = "validate" /\ ent.kind = "ticket"
    /\ DocFailing(ent) = {3, 4, 5}
    /\ ent.id = None
    /\ DocFieldOf(last.ret.error) = "priority"

ConvenienceMutators ==
    {"resolve", "close", "reopen", "put_on_hold", "assign_to_analyst",
     "assign_to_technician"}

\* C26: whenever resolve, close, reopen, put_on_hold, assign_to_analyst or
\* assign_to_technician changes the status of an Incident or Ticket from s
\* to t, can_transition_to(t) was true in status s.
C26_MutatorsFollowTable ==
    (/\ HasStatus
     /\ last.op \in ConvenienceMutators
     /\ ent.status # last.was) =>
        IF ent.kind = "incident"
        THEN Incident_can_transition_to([ent EXCEPT !.status = last.was],
                                        ent.status)
        ELSE Ticket_can_transition_to([ent EXCEPT !.status = last.was],
                                      ent.status)

\* The role stored for the user of the session.
StoredRole(username) ==
    {Some(row.role) : row \in get_user_by_username(ent.users, username[1])}

\* C27: after a successful login the session is logged in as the entered
\* username with the role stored for that user; a user stored as admin can
\* open the user-management page and every other user is denied; after
\* logout the session has no user, no role and shows the login page.
C27_SessionFollowsStoredRole ==
    /\ (last.op = "login" /\ ~last.err /\ last.ret = "Logged in!") =>
           /\ ent.session.logged_in
           /\ ent.session.user = Some(last.arg.username)
           /\ StoredRole(ent.session.user) = {ent.session.role}
    /\ last.op = "users_page" =>
           (last.ret = "Users Management"
                <=> StoredRole(ent.session.user) = {Some("admin")})
    /\ last.op = "logout" =>
           /\ ~ent.session.logged_in
           /\ ent.session.user = None
           /\ ent.session.role = None
           /\ last.ret = "login_page"

\* The statuses of the kind of an entity, and the statuses that allowed
\* transitions lead to from a set of statuses.
StatusesOf(e) ==
    IF e.kind = "incident" THEN DocIncidentStatuses ELSE DocTicketStatuses
Allowed(e, s, t) ==
    IF e.kind = "incident"
    THEN Incident_can_transition_to([e EXCEPT !.status = s], t)
    ELSE Ticket_can_transition_to([e EXCEPT !.status = s], t)
RECURSIVE ReachableFrom(_, _)
ReachableFrom(e, seen) ==
    LET more == {t \in StatusesOf(e) : \E s \in seen : Allowed(e, s, t)}
    IN IF more \subseteq seen THEN seen ELSE ReachableFrom(e, seen \cup more)

\* C28: neither transition table has a dead end: from the status of every
\* Incident and Ticket every other status of its kind is reachable by
\* allowed transitions, and a closed entity can go back to open in one
\* step.
C28_NoDeadEnd ==
    IsWalk =>
        /\ StatusesOf(ent.of) \subseteq ReachableFrom(ent.of, {ent.of.status})
        /\ ent.of.status = "closed" => Allowed(ent.of, "closed", "open")

\* A ticket that started closed and was walked to resolved along allowed
\* transitions.
C28_Witness ==
    /\ IsWalk /\ ent.of.kind = "ticket"
    /\ ent.from = "closed" /\ ent.of.status = "resolved"

\* C29: every password Validator.validate_password accepts gets a
\* calculate_password_strength score of at least 64, so its label is good,
\* strong or very strong, never weak or fair.
C29_AcceptedScoresAtLeast64 ==
    (/\ last.op = "calculate_password_strength"
     /\ Validator_validate_password(ent.value).ok) =>
        /\ last.ret.score >= 64
        /\ last.ret.label \in {"good", "strong", "very strong"}

\* An accepted password of 8 characters, 4 of them distinct, scored 64.
C29_Witness ==
    /\ last.op = "calculate_password_strength"
    /\ Validator_validate_password(ent.value).ok
    /\ Len(ent.value) = 8 /\ Cardinality(Range(ent.value)) = 4
    /\ last.ret = [score |-> 64, label |-> "good"]

\* C30: DatabaseManager is a process-wide singleton: every construction,
\* racing constructions of several threads included, returns the same
\* object; its initialisation, which sets the connection handle to None,
\* takes effect once only, so a later construction never discards a
\* connection that is open, and no construction fails.
C30_Singleton ==
    IsProcess =>
        /\ Cardinality(ent.returned) <= 1
        /\ ent.resets <= 1
        /\ last.op = "__init__: self._connection = None" => last.was # "open"
        /\ ~last.err

====
